---- MODULE Spec2Model ----
(***************************************************************************)
(* A model of the reactive synchronization protocol (Edge / Node / Port /  *)
(* Graph.eventBus) and of the interactive connection gesture               *)
(* (ConnectionPlugin) of ge-core.                                          *)
(*                                                                         *)
(* The scene graph is g-lite's: an edge that is a child of the graph finds *)
(* the graph by walking its parent links, g-lite calls connectedCallback   *)
(* when a child is mounted and disconnectedCallback while the child still  *)
(* has its parent, and EventTarget keeps a set of listener functions.      *)
(***************************************************************************)
EXTENDS Integers, Sequences, FiniteSets, TLC

VARIABLES
    pos,             \* Node: translation of the local transform, per node id
    portOffset,      \* Port: circle.style.cx / cy, per port id
    ports,           \* the ports the nodes have: Node.portsById, of all nodes
    nodesById,       \* Graph.nodesById: the ids registered
    edgesById,       \* Graph.edgesById: the Edge objects registered
    calc,            \* a call of a function of the library: its input and result
    edges,           \* the Edge objects still referenced, per object id
    children,        \* the Edge objects that are children of the graph
    bus,             \* graph.eventBus: the 'node:moved' listeners
    timers,          \* pending setTimeout(() => this._tryConnect(), 10), per edge
    virtualPos,      \* vx, vy of the virtual endpoint of each temporary edge
    graph,           \* ConnectionPlugin.graph
    graphListeners,  \* pointer listeners the plugin has on the graph
    startEndpoint,   \* ConnectionPlugin.startEndpoint
    tempEdge,        \* ConnectionPlugin.tempEdge
    virtualTarget,   \* ConnectionPlugin.virtualTarget
    startPos,        \* ConnectionPlugin.startPos
    pendingDown,     \* pointer-down picks whose promise has not resolved
    pendingUp,       \* pointer-up picks whose promise has not resolved
    thrown,          \* edges whose listener threw during the last dispatch
    last             \* the plugin operation that produced this state, if one did

vars == <<pos, portOffset, ports, nodesById, edgesById, calc, edges, children, bus, timers, virtualPos, graph,
          graphListeners, startEndpoint, tempEdge, virtualTarget, startPos,
          pendingDown, pendingUp, thrown, last>>

\* the diagram and the call last recorded: what is not the plugin's
diagramVars == <<pos, portOffset, ports, nodesById, edgesById, edges, children,
                 bus, timers, virtualPos, thrown>>

worldVars == <<diagramVars, calc>>

pluginVars == <<graph, graphListeners, startEndpoint, tempEdge, virtualTarget,
                startPos, pendingDown, pendingUp>>

(***************************************************************************)
(* Bounds of the model.                                                    *)
(***************************************************************************)
MaxEdges == 2      \* Edge objects alive at a time
MaxPending == 2    \* unresolved picks at a time
MaxTimers == 1     \* pending _tryConnect timers per edge
MaxHeld == 1       \* Edge objects a caller of the library holds

(***************************************************************************)
(* The diagram: two rectangular nodes, one of them with a port.            *)
(***************************************************************************)
NodeIds == {"n1", "n2"}
PortIds == {"n1:p", "n2:q"}

\* NodeConfig.x / y: n1 is configured without a position, n2 with one
nodeConfig == [n \in NodeIds |->
                 IF n = "n1" THEN [x |-> 0, y |-> 0] ELSE [x |-> 0, y |-> 8]]

\* style of the primary Rect of every node
nodeStyle == [x |-> 0, y |-> 0, width |-> 4, height |-> 4]

\* Port.owner and Port.layout
portOwner == [p \in PortIds |-> IF p = "n1:p" THEN "n1" ELSE "n2"]
portLayout == [p \in PortIds |-> "right"]

\* positions a caller moves a node to, and positions of the pointer
MovePositions == {<<0, 0>>, <<0, 8>>}
PointerPositions == {<<6, 6>>}

(***************************************************************************)
(* References to objects.  k: what the value is; n: the id of a node or    *)
(* port (or the string itself); i: the identity of a virtual endpoint.     *)
(***************************************************************************)
Null == [k |-> "null", n |-> "", i |-> 0]
NodeRef(n) == [k |-> "node", n |-> n, i |-> 0]
PortRef(p) == [k |-> "port", n |-> p, i |-> 0]
VirtualRef(i) == [k |-> "virtual", n |-> "", i |-> i]
StringRef(s) == [k |-> "string", n |-> s, i |-> 0]

\* the Node and Port objects of the diagram
Endpoints == {NodeRef(n) : n \in NodeIds} \cup {PortRef(p) : p \in PortIds}

EdgeIds == 1..MaxEdges

Listener(id, role, fn) == [edge |-> id, role |-> role, fn |-> fn]

ListenersOf(B, id) == {l \in B : l.edge = id}

(***************************************************************************)
(* Node.getPosition: the configured position wins over the transform       *)
(* whenever it is not the origin.                                          *)
(***************************************************************************)
getPosition(P, n) ==
    LET x == nodeConfig[n].x
        y == nodeConfig[n].y
    IN  IF x # 0 \/ y # 0 THEN <<x, y>> ELSE P[n]

\* Port.getRelativePosition
getRelativePosition(O, p) == O[p]

\* Port.getAbsolutePosition (the port has an owner)
getAbsolutePosition(P, O, p) ==
    LET owner == getPosition(P, portOwner[p])
        rel == getRelativePosition(O, p)
    IN  <<owner[1] + rel[1], owner[2] + rel[2]>>

\* Port.updatePosition on a rect owner with a preset layout
PortAnchor(p) ==
    LET w == nodeStyle.width
        h == nodeStyle.height
        x == nodeStyle.x
        y == nodeStyle.y
        l == portLayout[p]
    IN  CASE l = "top" -> <<x + (w \div 2), y>>
          [] l = "bottom" -> <<x + (w \div 2), y + h>>
          [] l = "left" -> <<x, y + (h \div 2)>>
          [] l = "right" -> <<x + w, y + (h \div 2)>>
          [] OTHER -> <<0, 0>>

\* `if (typeof x.updatePosition === 'function') x.updatePosition()` on each of refs
updatePosition(O, refs) ==
    [p \in PortIds |-> IF PortRef(p) \in refs THEN PortAnchor(p) ELSE O[p]]

\* ConnectionPlugin._computeEndpointPosition
computeEndpointPosition(P, O, ep) ==
    CASE ep.k = "port" -> getAbsolutePosition(P, O, ep.n)
      [] ep.k = "node" ->
            LET np == getPosition(P, ep.n)
            IN  <<np[1] + nodeStyle.x + (nodeStyle.width \div 2),
                  np[2] + nodeStyle.y + (nodeStyle.height \div 2)>>
      [] OTHER -> <<0, 0>>

\* getEndpointPosition inside Edge.updatePositionFromNodes
getEndpointPosition(P, O, V, ep) ==
    CASE ep.k = "port" -> getAbsolutePosition(P, O, ep.n)
      [] ep.k = "virtual" -> V[ep.i]
      [] ep.k = "node" -> getPosition(P, ep.n)
      [] OTHER -> <<0, 0>>

(***************************************************************************)
(* Edge.getNodeEdgePoint for a rect node.  The direction is (dx, dy)/dist; *)
(* dist cancels in every quotient, so the point is computed from dx, dy.   *)
(***************************************************************************)
Abs(v) == IF v < 0 THEN -v ELSE v

getNodeEdgePoint(P, n, dx, dy) ==
    LET np == getPosition(P, n)
        x == np[1] + nodeStyle.x
        y == np[2] + nodeStyle.y
        w == nodeStyle.width
        h == nodeStyle.height
        centerX == x + (w \div 2)
        centerY == y + (h \div 2)
        \* the crossing of a vertical side lies within the side's span
        sideOk == Abs(dy) * w <= Abs(dx) * h
        \* the crossing of a horizontal side lies within the side's span
        flatOk == Abs(dx) * h <= Abs(dy) * w
    IN  IF dx > 0 /\ sideOk THEN <<x + w, centerY + ((dy * (w \div 2)) \div dx)>>
        ELSE IF dx < 0 /\ sideOk THEN <<x, centerY - ((dy * (w \div 2)) \div dx)>>
        ELSE IF dy > 0 /\ flatOk THEN <<centerX + ((dx * (h \div 2)) \div dy), y + h>>
        ELSE IF dy < 0 /\ flatOk THEN <<centerX - ((dx * (h \div 2)) \div dy), y>>
        ELSE <<centerX, centerY>>

\* the x1, y1, x2, y2 Edge.updatePositionFromNodes writes to the primary Line
EdgePath(P, O, V, s, t) ==
    LET p1 == getEndpointPosition(P, O, V, s)
        p2 == getEndpointPosition(P, O, V, t)
        dx == p2[1] - p1[1]
        dy == p2[2] - p1[2]
    IN  IF s.k = "node" /\ t.k = "node" /\ (dx # 0 \/ dy # 0)
        THEN getNodeEdgePoint(P, s.n, dx, dy) \o getNodeEdgePoint(P, t.n, -dx, -dy)
        ELSE p1 \o p2

\* computeAnchor(pts, {snap: 'start'}) on the two points of a Line: its position
StartAnchor(path) == <<path[1], path[2]>>

\* computeAnchor(pts, {snap: 'end'}) on the two points of a Line: its position
EndAnchor(path) == <<path[3], path[4]>>

\* computeAnchor(pts, {t: 0.5, offset: {normal: 0}}) on the two points of a Line
\* (the coordinates of the diagram keep the midpoint whole)
LabelAnchor(path) == <<(path[1] + path[3]) \div 2, (path[2] + path[4]) \div 2>>

\* updatePositionFromNodes that places markers and label before it writes the
\* path
updatePositionDecoratesFirst(P, O, V, e) ==
    LET path == EdgePath(P, O, V, e.sourceNode, e.targetNode)
    IN  [e EXCEPT !.path = path,
                  !.startMarker = StartAnchor(e.path),
                  !.endMarker = EndAnchor(e.path),
                  !.label = LabelAnchor(e.path)]

\* Edge.updatePositionFromNodes: path, then markers, then label
updatePositionFromNodes(P, O, V, e) ==
    LET path == EdgePath(P, O, V, e.sourceNode, e.targetNode)
    IN  [e EXCEPT !.path = path,
                  !.startMarker = StartAnchor(path),
                  !.endMarker = EndAnchor(path),
                  !.label = LabelAnchor(path)]

(***************************************************************************)
(* The objects the operations work on, as one record, so that a handler    *)
(* reads as the sequence of calls it makes.                                *)
(***************************************************************************)
World == [pos |-> pos, portOffset |-> portOffset, ports |-> ports,
          nodesById |-> nodesById, edgesById |-> edgesById, edges |-> edges,
          children |-> children, bus |-> bus, timers |-> timers,
          virtualPos |-> virtualPos, thrown |-> {}]

SetDiagram(W) ==
    \E V \in {W} :
        /\ pos' = V.pos
        /\ portOffset' = V.portOffset
        /\ ports' = V.ports
        /\ nodesById' = V.nodesById
        /\ edgesById' = V.edgesById
        /\ edges' = V.edges
        /\ children' = V.children
        /\ bus' = V.bus
        /\ timers' = V.timers
        /\ virtualPos' = V.virtualPos
        /\ thrown' = V.thrown

\* an operation that records no call
SetWorld(W) == SetDiagram(W) /\ UNCHANGED calc

\* new Edge(config): nothing resolved, primary Line at x1 = y1 = x2 = y2 = 0
NewEdge(source, target, held) ==
    [source |-> source, target |-> target,
     sourceNode |-> Null, targetNode |-> Null,
     onSourceMoved |-> 0, onTargetMoved |-> 0,
     path |-> <<0, 0, 0, 0>>, startMarker |-> <<0, 0>>, endMarker |-> <<0, 0>>,
     label |-> <<0, 0>>,
     held |-> held]

HasFreeId == DOMAIN edges # EdgeIds

FreeId(W) == CHOOSE i \in EdgeIds \ DOMAIN W.edges :
                 \A j \in EdgeIds \ DOMAIN W.edges : i <= j

Allocate(W, id, e) ==
    [W EXCEPT !.edges = [j \in DOMAIN W.edges \cup {id} |->
                           IF j = id THEN e ELSE W.edges[j]]]

\* Edge._findGraphParent: the graph, when the edge is a child of it
findGraphParent(W, id) == id \in W.children

\* a function object no listener on the bus is identical to
NewFunction(B, id, role) ==
    CHOOSE g \in 1..(Cardinality(B) + 1) :
        /\ Listener(id, role, g) \notin B
        /\ \A h \in 1..(g - 1) : Listener(id, role, h) \in B

\* connectTo without the unsubscription of the previous listeners
connectToKeepsPrevious(W, id, s, t) ==
    LET e == W.edges[id]
        found == findGraphParent(W, id)
        fs == NewFunction(W.bus, id, "source")
        ft == NewFunction(W.bus, id, "target")
        e1 == [e EXCEPT !.sourceNode = s, !.targetNode = t,
                        !.onSourceMoved = IF found THEN fs ELSE @,
                        !.onTargetMoved = IF found THEN ft ELSE @]
    IN  [W EXCEPT !.bus = IF found
                          THEN @ \cup {Listener(id, "source", fs), Listener(id, "target", ft)}
                          ELSE @,
                  !.edges[id] = updatePositionFromNodes(W.pos, W.portOffset,
                                                        W.virtualPos, e1)]

\* Edge.connectTo
connectTo(W, id, s, t) ==
    LET e == W.edges[id]
        found == findGraphParent(W, id)
        b1 == IF e.onSourceMoved # 0 /\ e.sourceNode # Null /\ found
              THEN W.bus \ {Listener(id, "source", e.onSourceMoved)}
              ELSE W.bus
        b2 == IF e.onTargetMoved # 0 /\ e.targetNode # Null /\ found
              THEN b1 \ {Listener(id, "target", e.onTargetMoved)}
              ELSE b1
        fs == NewFunction(b2, id, "source")
        ft == NewFunction(b2, id, "target")
        b3 == IF found
              THEN b2 \cup {Listener(id, "source", fs), Listener(id, "target", ft)}
              ELSE b2
        e1 == [e EXCEPT !.sourceNode = s, !.targetNode = t,
                        !.onSourceMoved = IF found THEN fs ELSE @,
                        !.onTargetMoved = IF found THEN ft ELSE @]
        e2 == updatePositionFromNodes(W.pos, W.portOffset, W.virtualPos, e1)
    IN  [W EXCEPT !.bus = b3, !.edges[id] = e2]

\* disconnectedCallback that forgets the target listener
disconnectedCallbackSourceOnly(W, id) ==
    LET e == W.edges[id]
    IN  IF findGraphParent(W, id) /\ e.onSourceMoved # 0
        THEN [W EXCEPT !.bus = @ \ {Listener(id, "source", e.onSourceMoved)}]
        ELSE W

\* Edge.disconnectedCallback
disconnectedCallback(W, id) ==
    LET e == W.edges[id]
    IN  IF findGraphParent(W, id)
        THEN [W EXCEPT !.bus = (@ \ (IF e.onSourceMoved # 0
                                     THEN {Listener(id, "source", e.onSourceMoved)}
                                     ELSE {}))
                                 \ (IF e.onTargetMoved # 0
                                    THEN {Listener(id, "target", e.onTargetMoved)}
                                    ELSE {})]
        ELSE W

\* Graph.appendChild of an edge; g-lite mounts it: Edge.connectedCallback
appendChild(W, id) ==
    [W EXCEPT !.children = @ \cup {id}, !.edgesById = @ \cup {id},
              !.timers[id] = @ + 1]

\* Graph.removeChild of an edge; g-lite unmounts it, then detaches it
removeChild(W, id) ==
    IF id \in W.children
    THEN [disconnectedCallback(W, id) EXCEPT !.children = @ \ {id},
                                             !.edgesById = @ \ {id}]
    ELSE W

\* resolveEndpoint inside Edge._tryConnect
resolveEndpoint(W, id, ref) ==
    CASE ref.k \in {"node", "port", "virtual"} -> ref
      [] ref.k = "string" /\ findGraphParent(W, id) /\ ref.n \in W.ports -> PortRef(ref.n)
      [] ref.k = "string" /\ findGraphParent(W, id) /\ ref.n \in W.nodesById -> NodeRef(ref.n)
      [] OTHER -> Null

\* _tryConnect that connects an edge with one end resolved
tryConnectOneEnd(W, id) ==
    LET e == W.edges[id]
        s == resolveEndpoint(W, id, e.source)
        t == resolveEndpoint(W, id, e.target)
    IN  IF s # Null \/ t # Null THEN connectTo(W, id, s, t) ELSE W

\* Edge._tryConnect
tryConnect(W, id) ==
    LET e == W.edges[id]
        s == resolveEndpoint(W, id, e.source)
        t == resolveEndpoint(W, id, e.target)
        \* a port found by id has its position updated before it is returned
        W1 == [W EXCEPT !.portOffset =
                 updatePosition(@, {r \in {s, t} : r.k = "port" /\ StringRef(r.n) \in {e.source, e.target}})]
    IN  IF s # Null /\ t # Null THEN connectTo(W1, id, s, t) ELSE W1

\* the listeners of connectTo, for the edge `id`, on 'node:moved' of node n:
\* whether one of them finds its endpoint's id equal to n
ListenerMatches(W, id, n) ==
    \E l \in ListenersOf(W.bus, id) :
        LET ep == IF l.role = "source" THEN W.edges[id].sourceNode
                  ELSE W.edges[id].targetNode
        IN  ep.k \in {"node", "port"} /\ ep.n = n

\* whether one of them calls getId on an endpoint that has no getId
ListenerThrows(W, id) ==
    \E l \in ListenersOf(W.bus, id) :
        LET ep == IF l.role = "source" THEN W.edges[id].sourceNode
                  ELSE W.edges[id].targetNode
        IN  ep.k = "virtual"

\* eventBus.dispatchEvent(new CustomEvent('node:moved', {detail: {id: n}}))
dispatchNodeMoved(W, n) ==
    [W EXCEPT !.edges = [id \in DOMAIN W.edges |->
                           IF ListenerMatches(W, id, n)
                           THEN updatePositionFromNodes(W.pos, W.portOffset,
                                                        W.virtualPos, W.edges[id])
                           ELSE W.edges[id]],
              !.thrown = {id \in DOMAIN W.edges : ListenerThrows(W, id)}]

\* Node.setPosition
setPosition(W, n, p) ==
    dispatchNodeMoved([W EXCEPT !.pos[n] = p], n)

\* Edge objects nothing refers to any more are dropped, with their timers
Referenced(W, te, id) ==
    \/ id \in W.children
    \/ id = te
    \/ W.edges[id].held
    \/ ListenersOf(W.bus, id) # {}

Collect(W, te) ==
    LET keep == {id \in DOMAIN W.edges : Referenced(W, te, id)}
    IN  [W EXCEPT !.edges = [id \in keep |-> W.edges[id]],
                  !.timers = [id \in EdgeIds |-> IF id \in keep THEN W.timers[id] ELSE 0],
                  !.virtualPos = [id \in EdgeIds |->
                                    IF id \in keep THEN W.virtualPos[id] ELSE <<0, 0>>],
                  !.thrown = @ \cap keep]

(***************************************************************************)
(* ConnectionPlugin.                                                       *)
(***************************************************************************)
NoGraph == "null"
NoCalc == [fn |-> "none"]
TheGraph == "Graph"
NoEdge == 0
NoPos == <<>>
PointerEvents == {"pointerdown", "pointermove", "pointerup"}

\* what a pick resolves to: the port, the other node, or nothing
PickResults == {PortRef("n1:p"), NodeRef("n2"), Null}

\* what can throw while a release is committed
Failures == {"none", "constructor", "appendChild", "connectTo"}

Op(op, ep, fail) ==
    [op |-> op, ep |-> ep, fail |-> fail, edge |-> NoEdge, at |-> NoPos]

\* a call of a method of the edge `id` by a caller of the library
EdgeOp(op, id) ==
    [op |-> op, ep |-> Null, fail |-> "none", edge |-> id, at |-> NoPos]

\* the label of a pointer-move that found a gesture in progress and coordinates
MoveOp(p) ==
    [op |-> "pointermove", ep |-> Null, fail |-> "none", edge |-> NoEdge, at |-> p]

\* an operation that is not a pointer handler of the plugin
Other == Op("other", Null, "none")

IsTemporary(e) == e.target.k = "virtual"

\* the edges of the graph that have a virtual endpoint
TemporaryChildren == {id \in children : IsTemporary(edges[id])}

\* the edges of the graph that have none
PermanentChildren == {id \in children : ~IsTemporary(edges[id])}

Idle ==
    /\ startEndpoint = Null
    /\ tempEdge = NoEdge
    /\ virtualTarget = Null
    /\ startPos = NoPos

\* cleanupTemp that leaves the temporary edge in the graph
cleanupTempKeepsEdge(W) == W

\* cleanupTemp, on the world; the four fields are set to null by the caller
cleanupTemp(W) ==
    IF tempEdge # NoEdge /\ graph # NoGraph THEN removeChild(W, tempEdge) ELSE W

ClearGesture ==
    /\ tempEdge' = NoEdge
    /\ virtualTarget' = Null
    /\ startEndpoint' = Null
    /\ startPos' = NoPos

\* the body both branches of _onPointerDown run once the endpoint is known
StartGesture(ep) ==
    LET sp == computeEndpointPosition(pos, portOffset, ep)
        id == FreeId(World)
        W1 == Allocate([World EXCEPT !.virtualPos[id] = sp], id,
                       NewEdge(ep, VirtualRef(id), FALSE))
        W2 == IF graph # NoGraph THEN appendChild(W1, id) ELSE W1
        W3 == connectTo(W2, id, ep, VirtualRef(id))
    IN  /\ startEndpoint' = ep
        /\ startPos' = sp
        /\ virtualTarget' = VirtualRef(id)
        /\ tempEdge' = id
        /\ SetWorld(Collect(W3, id))

\* what a pick hands to the handler itself: nothing when it is a promise
PickedNow(async) == IF async THEN {Null} ELSE PickResults

\* _onPointerDown
PointerDown(async, ep) ==
    /\ "pointerdown" \in graphListeners
    /\ ep \in PickedNow(async)
    /\ IF async
       THEN /\ pendingDown + pendingUp < MaxPending
            /\ pendingDown' = pendingDown + 1
            /\ last' = Other
            /\ UNCHANGED <<worldVars, startEndpoint, tempEdge, virtualTarget, startPos>>
       ELSE /\ UNCHANGED pendingDown
            /\ IF ep = Null
               THEN UNCHANGED <<worldVars, startEndpoint, tempEdge, virtualTarget, startPos,
                                last>>
               ELSE /\ HasFreeId
                    /\ last' = Other
                    /\ StartGesture(ep)
    /\ UNCHANGED <<graph, graphListeners, pendingUp>>

\* the then-callback of the pointer-down pick
PickDownResolved(ep) ==
    /\ pendingDown > 0
    /\ pendingDown' = pendingDown - 1
    /\ last' = Other
    /\ IF ep = Null
       THEN UNCHANGED <<worldVars, startEndpoint, tempEdge, virtualTarget, startPos>>
       ELSE HasFreeId /\ StartGesture(ep)
    /\ UNCHANGED <<graph, graphListeners, pendingUp>>

\* _onPointerMove that moves the virtual endpoint and leaves the edge as it is
PointerMoveKeepsPath(p) ==
    /\ "pointermove" \in graphListeners
    /\ IF tempEdge = NoEdge \/ virtualTarget = Null \/ p = NoPos
       THEN UNCHANGED <<worldVars, last>>
       ELSE /\ last' = MoveOp(p)
            /\ SetWorld([World EXCEPT !.virtualPos[virtualTarget.i] = p])
    /\ UNCHANGED pluginVars

\* _onPointerMove; p is NoPos for an event without coordinates and a graph
\* without container
PointerMove(p) ==
    /\ "pointermove" \in graphListeners
    /\ IF tempEdge = NoEdge \/ virtualTarget = Null \/ p = NoPos
       THEN UNCHANGED <<worldVars, last>>
       ELSE LET W1 == [World EXCEPT !.virtualPos[virtualTarget.i] = p]
                W2 == [W1 EXCEPT !.edges[tempEdge] =
                         updatePositionFromNodes(W1.pos, W1.portOffset, W1.virtualPos, @)]
            IN  last' = MoveOp(p) /\ SetWorld(W2)
    /\ UNCHANGED pluginVars

\* whether _onPointerUp goes on to create an edge for the picked endpoint
Commits(ep) == ep # Null /\ ep # startEndpoint

\* the failures that can occur after the pick of ep: the edge is created only
\* when the release commits
FailuresAfter(ep) == IF Commits(ep) THEN Failures ELSE {"none"}

\* _onPointerUp that cancels whatever the pick has produced
ReleaseAlwaysCancels(ep, fail, sync) ==
    [world |-> cleanupTemp(World), cleaned |-> TRUE]

\* what _onPointerUp does once the pick has produced ep: the world after it,
\* and whether cleanupTemp ran
Release(ep, fail, sync) ==
    IF ~Commits(ep)
    THEN [world |-> cleanupTemp(World), cleaned |-> TRUE]
    ELSE LET \* updatePosition of both ends; reading it off a null start endpoint
             \* throws before the end's is reached
             W0 == [World EXCEPT !.portOffset =
                      IF startEndpoint = Null THEN @
                      ELSE updatePosition(@, {startEndpoint, ep})]
         IN  IF fail = "constructor"
             THEN [world |-> IF sync THEN W0 ELSE cleanupTemp(W0), cleaned |-> ~sync]
             ELSE IF graph = NoGraph \/ fail = "appendChild"
             THEN \* the new edge is in no graph and nothing refers to it
                  [world |-> cleanupTemp(W0), cleaned |-> TRUE]
             ELSE LET id == FreeId(W0)
                      W1 == Allocate(W0, id, NewEdge(startEndpoint, ep, FALSE))
                      W2 == appendChild(W1, id)
                      W3 == IF fail = "connectTo" THEN W2
                            ELSE connectTo(W2, id, startEndpoint, ep)
                  IN  [world |-> cleanupTemp(W3), cleaned |-> TRUE]

FinishRelease(ep, fail, sync) ==
    LET r == Release(ep, fail, sync)
    IN  /\ IF r.cleaned
           THEN ClearGesture /\ SetWorld(Collect(r.world, NoEdge))
           ELSE /\ UNCHANGED <<startEndpoint, tempEdge, virtualTarget, startPos>>
                /\ SetWorld(r.world)

\* _onPointerUp
PointerUp(async, ep, fail) ==
    /\ "pointerup" \in graphListeners
    /\ ep \in PickedNow(async) /\ fail \in FailuresAfter(ep)
    /\ IF startEndpoint = Null
       THEN /\ last' = Op("pointerup", Null, "ignored")
            /\ UNCHANGED <<worldVars, startEndpoint, tempEdge, virtualTarget, startPos,
                           pendingUp>>
       ELSE IF async
       THEN /\ pendingDown + pendingUp < MaxPending
            /\ pendingUp' = pendingUp + 1
            /\ last' = Op("pointerup", Null, "async")
            /\ UNCHANGED <<worldVars, startEndpoint, tempEdge, virtualTarget, startPos>>
       ELSE /\ Commits(ep) => HasFreeId
            /\ last' = Op("pointerup", ep, IF Commits(ep) THEN fail ELSE "none")
            /\ FinishRelease(ep, fail, TRUE)
            /\ UNCHANGED pendingUp
    /\ UNCHANGED <<graph, graphListeners, pendingDown>>

\* the then-callback of the pointer-up pick
PickUpResolved(ep, fail) ==
    /\ pendingUp > 0
    /\ fail \in FailuresAfter(ep)
    /\ Commits(ep) => HasFreeId
    /\ pendingUp' = pendingUp - 1
    /\ last' = Op("upResolved", ep, IF Commits(ep) THEN fail ELSE "none")
    /\ FinishRelease(ep, fail, FALSE)
    /\ UNCHANGED <<graph, graphListeners, pendingDown>>

\* uninstall that only forgets the graph
UninstallForgetsGraph ==
    /\ graph # NoGraph
    /\ last' = Op("uninstall", startEndpoint, "none")
    /\ graph' = NoGraph
    /\ UNCHANGED <<worldVars, graphListeners, startEndpoint, tempEdge, virtualTarget, startPos,
                   pendingDown, pendingUp>>

\* ConnectionPlugin.uninstall, called by Graph.uninstallPlugin
Uninstall ==
    /\ graph # NoGraph
    /\ last' = Op("uninstall", startEndpoint, "none")
    /\ graphListeners' = {}
    /\ SetWorld(Collect(cleanupTemp(World), NoEdge))
    /\ graph' = NoGraph
    /\ ClearGesture
    /\ UNCHANGED <<pendingDown, pendingUp>>

(***************************************************************************)
(* The edge and node operations a caller of the library performs.          *)
(***************************************************************************)
\* ids a caller names the ends of an edge with; n3 is the id of no node
EdgeEnds == {<<"n1", "n2">>, <<"n1:p", "n2">>, <<"n1", "n3">>}

\* Graph.getNodeById: the registry, then document.getElementById
getNodeById(W, n) == n \in W.nodesById \cup W.ports

\* a call of the library, its arguments and how it ended
Call(fn, in, out) == [fn |-> fn, in |-> in, out |-> out]

\* the Node or Port object an end of an edge names
EndpointOf(ref) ==
    IF ref.k # "string" THEN ref
    ELSE IF ref.n \in ports THEN PortRef(ref.n)
    ELSE IF ref.n \in nodesById THEN NodeRef(ref.n)
    ELSE Null

\* graph.addEdge that creates the edge without looking at its ends
AddEdgeUnchecked(s, t) ==
    /\ HasFreeId
    /\ calc' = Call("addEdge", <<s, t>>, "returned")
    /\ LET id == FreeId(World)
           W1 == Allocate(World, id, NewEdge(StringRef(s), StringRef(t), TRUE))
       IN  last' = EdgeOp("addEdge", id) /\ SetDiagram(appendChild(W1, id))
    /\ UNCHANGED pluginVars

\* graph.addEdge({source, target})
AddEdge(s, t) ==
    /\ IF ~getNodeById(World, s) \/ ~getNodeById(World, t)
       THEN /\ calc' = Call("addEdge", <<s, t>>, "threw")
            /\ last' = Op("addEdge", Null, "threw")
            /\ UNCHANGED diagramVars
       ELSE /\ HasFreeId
            /\ Cardinality({id \in DOMAIN edges : edges[id].held}) < MaxHeld
            /\ calc' = Call("addEdge", <<s, t>>, "returned")
            /\ LET id == FreeId(World)
                   W1 == Allocate(World, id, NewEdge(StringRef(s), StringRef(t), TRUE))
               IN  last' = EdgeOp("addEdge", id) /\ SetDiagram(appendChild(W1, id))
    /\ UNCHANGED pluginVars

\* graph.appendChild of an edge that was removed before
AppendChild(id) ==
    /\ id \in DOMAIN edges
    /\ id \notin children
    /\ edges[id].held
    /\ timers[id] < MaxTimers
    /\ last' = Other
    /\ SetWorld(appendChild(World, id))
    /\ UNCHANGED pluginVars

\* graph.removeChild of an edge a caller got from the graph
RemoveChild(id) ==
    /\ id \in PermanentChildren
    /\ last' = Other
    /\ SetWorld(removeChild([World EXCEPT !.edges[id].held = TRUE], id))
    /\ UNCHANGED pluginVars

\* edge.connectTo(s, t) by a caller, with the objects the edge's ends name
ConnectTo(id) ==
    /\ id \in DOMAIN edges
    /\ ~IsTemporary(edges[id])
    /\ id \in children \/ edges[id].held
    /\ EndpointOf(edges[id].source) # Null
    /\ EndpointOf(edges[id].target) # Null
    /\ last' = EdgeOp("connectTo", id)
    /\ SetWorld(connectTo(World, id, EndpointOf(edges[id].source),
                          EndpointOf(edges[id].target)))
    /\ UNCHANGED pluginVars

\* disconnectedCallback reaching an edge that is in no graph any more
DisconnectedAgain(id) ==
    /\ id \in DOMAIN edges
    /\ id \notin children
    /\ last' = EdgeOp("disconnectedCallback", id)
    /\ SetWorld(disconnectedCallback(World, id))
    /\ UNCHANGED pluginVars

\* the timer of Edge.connectedCallback fires
TryConnectTimer(id) ==
    /\ id \in DOMAIN edges
    /\ timers[id] > 0
    /\ last' = Other
    /\ SetWorld(Collect(tryConnect([World EXCEPT !.timers[id] = @ - 1], id), tempEdge))
    /\ UNCHANGED pluginVars

\* document.documentElement.removeChildren(): every edge is unmounted
RECURSIVE removeChildren(_)
removeChildren(W) ==
    IF W.children = {} THEN W
    ELSE LET id == CHOOSE i \in W.children : TRUE
         IN  removeChildren([disconnectedCallback(W, id) EXCEPT !.children = @ \ {id}])

\* data.edges.forEach: new Edge(edgeData), then this.appendChild(edge)
RECURSIVE createEdges(_, _)
createEdges(W, es) ==
    IF es = <<>> THEN W
    ELSE LET id == FreeId(W)
             e == NewEdge(StringRef(es[1][1]), StringRef(es[1][2]), FALSE)
         IN  createEdges(appendChild(Allocate(W, id, e), id), Tail(es))

\* the ends of the edges of the data a caller loads; n3 and n1:z exist nowhere
DataEnds == {<<"n1", "n2">>, <<"n1", "n3">>, <<"n1:p", "n2">>, <<"n1:z", "n2">>}

DataEdges == UNION {[1..k -> DataEnds] : k \in 0..MaxEdges}

\* graph.setData({nodes: [n1, n2], edges: es}); the new nodes have no port
SetData(es) ==
    /\ Cardinality({id \in DOMAIN edges : edges[id].held \/ id = tempEdge}) + Len(es)
          <= MaxEdges
    /\ last' = Other
    /\ calc' = Call("setData", es, "returned")
    /\ LET W1 == Collect(removeChildren(World), tempEdge)
           W2 == [W1 EXCEPT !.nodesById = {}, !.edgesById = {}]
           W3 == [W2 EXCEPT !.nodesById = NodeIds,
                            !.pos = [n \in NodeIds |-> <<nodeConfig[n].x, nodeConfig[n].y>>],
                            !.ports = {},
                            !.portOffset = [p \in PortIds |-> <<0, 0>>]]
       IN  SetDiagram(createEdges(W3, es))
    /\ UNCHANGED pluginVars

\* node.createPort({id, layout}); Port.connectedCallback updates its position
CreatePort(p) ==
    /\ p \notin ports
    /\ last' = Other
    /\ SetWorld([World EXCEPT !.ports = @ \cup {p}, !.portOffset[p] = PortAnchor(p)])
    /\ UNCHANGED pluginVars

\* node.setPosition(p) by a caller
SetPosition(n, p) ==
    /\ last' = Other
    /\ SetWorld(setPosition(World, n, p))
    /\ UNCHANGED pluginVars

(***************************************************************************)
(* The diagram after construction: both nodes and the port mounted, the    *)
(* plugin installed, no edge.                                              *)
(***************************************************************************)
Constructed ==
    /\ pos = [n \in NodeIds |-> <<nodeConfig[n].x, nodeConfig[n].y>>]
    /\ portOffset = [p \in PortIds |-> PortAnchor(p)]
    /\ ports = PortIds
    /\ nodesById = NodeIds
    /\ edgesById = {}
    /\ edges = [id \in {} |-> Null]
    /\ children = {}
    /\ bus = {}
    /\ timers = [id \in EdgeIds |-> 0]
    /\ virtualPos = [id \in EdgeIds |-> <<0, 0>>]
    /\ graph = TheGraph
    /\ graphListeners = PointerEvents
    /\ startEndpoint = Null
    /\ tempEdge = NoEdge
    /\ virtualTarget = Null
    /\ startPos = NoPos
    /\ pendingDown = 0
    /\ pendingUp = 0
    /\ thrown = {}
    /\ last = Other

Init == Constructed /\ calc = NoCalc

(***************************************************************************)
(* The endpoint pick: pickFromArray inside _pickEndpointFromEvent, on the  *)
(* list elementsFromBBox returns.                                          *)
(***************************************************************************)
MaxPicked == 3     \* elements elementsFromBBox returns for one pick

\* an Edge: its constructor name contains 'edge'
EdgeElement == [k |-> "edge", n |-> "", i |-> 0]

\* a shape or a label of a node or of an edge: it has neither
\* getAbsolutePosition nor getPortById, getPorts or createPort
ShapeElement == [k |-> "shape", n |-> "", i |-> 0]

PickedElements ==
    {PortRef(p) : p \in PortIds} \cup {NodeRef(n) : n \in NodeIds}
        \cup {EdgeElement, ShapeElement}

PickedLists == UNION {[1..k -> PickedElements] : k \in 0..MaxPicked}

\* pickFromArray: the loop over the list, in its order
RECURSIVE pickFromArray(_)
pickFromArray(elems) ==
    IF elems = <<>> THEN Null
    ELSE LET el == Head(elems)
         IN  IF el.k = "edge" THEN pickFromArray(Tail(elems))
             ELSE IF el.k = "port" THEN el
             ELSE IF el.k = "node" THEN el
             ELSE pickFromArray(Tail(elems))

\* elementsFromBBox has returned a list
PickInit ==
    /\ Constructed
    /\ \E elems \in PickedLists : calc = Call("elementsFromBBox", elems, Null)

PickFromArray ==
    /\ calc.fn = "elementsFromBBox"
    /\ calc' = Call("pickFromArray", calc.in, pickFromArray(calc.in))
    /\ UNCHANGED <<diagramVars, pluginVars, last>>

PickNext == PickFromArray

\* the endpoint pick alone, on every list of elements
PickSpec == PickInit /\ [][PickNext]_vars

(***************************************************************************)
(* Anchors: computeAnchorForShape and Port.updatePosition as functions of  *)
(* a shape and a layout.                                                   *)
(*                                                                         *)
(* Numbers.  Coordinates and sizes are integers, sizes even, so that the   *)
(* halves the code takes are integers too.  Math.cos and Math.sin of a     *)
(* multiple of 90 degrees are 0, 1 or -1 or, where the double a*Math.PI/180*)
(* misses the multiple of pi/2, a multiple of u = 6.123233995736766e-17:   *)
(* Math.cos(90*Math.PI/180) = u, Math.sin(180*Math.PI/180) = 2u,           *)
(* Math.cos(270*Math.PI/180) = -3u, Math.sin(360*Math.PI/180) = -4u,       *)
(* Math.cos(450*Math.PI/180) = 5u.  A number is w + e*u, kept as [w, e];   *)
(* an angle is applied only to a shape centred at the origin, where the    *)
(* sums and products of the code are those of [w, e] (no residue is        *)
(* absorbed by a larger term).                                             *)
(***************************************************************************)
Num(i) == [w |-> i, e |-> 0]
Residue(k) == [w |-> 0, e |-> k]
Plus(a, b) == [w |-> a.w + b.w, e |-> a.e + b.e]
\* i * a, for an integer i
Scale(i, a) == [w |-> i * a.w, e |-> i * a.e]
Point(x, y) == <<Num(x), Num(y)>>

AnchorAngles == {-90, 0, 90, 180, 270, 360, 450}

\* Math.sin that returns sin(a - 90) for the angles above 180 degrees
MathSinShifted(a) ==
    CASE a = 0 -> Num(0)
      [] a \in {90, 270} -> Num(1)
      [] a \in {-90, 360, 450} -> Num(-1)
      [] a = 180 -> Residue(2)

\* Math.cos(a * Math.PI / 180)
MathCos(a) ==
    CASE a \in {0, 360} -> Num(1)
      [] a = 180 -> Num(-1)
      [] a \in {-90, 90} -> Residue(1)
      [] a = 270 -> Residue(-3)
      [] a = 450 -> Residue(5)

\* Math.sin(a * Math.PI / 180)
MathSin(a) ==
    CASE a = 0 -> Num(0)
      [] a \in {90, 450} -> Num(1)
      [] a \in {-90, 270} -> Num(-1)
      [] a = 180 -> Residue(2)
      [] a = 360 -> Residue(-4)

\* shape descriptors: nodeName and style (hasStyle: the shape has a style object)
NoShape ==
    [nodeName |-> "", hasStyle |-> TRUE, x |-> 0, y |-> 0, width |-> 0, height |-> 0,
     cx |-> 0, cy |-> 0, r |-> 0, rx |-> 0, ry |-> 0, points |-> <<>>]
RectShape(x, y, w, h) ==
    [NoShape EXCEPT !.nodeName = "rect", !.x = x, !.y = y, !.width = w, !.height = h]
CircleShape(cx, cy, r) ==
    [NoShape EXCEPT !.nodeName = "circle", !.cx = cx, !.cy = cy, !.r = r]
EllipseShape(cx, cy, rx, ry) ==
    [NoShape EXCEPT !.nodeName = "ellipse", !.cx = cx, !.cy = cy, !.rx = rx, !.ry = ry]
PointsShape(name, points) == [NoShape EXCEPT !.nodeName = name, !.points = points]
\* a shape of another kind, with the local bounds getLocalBounds returns
BoundedShape(name, x, y, w, h) ==
    [NoShape EXCEPT !.nodeName = name, !.x = x, !.y = y, !.width = w, !.height = h]
\* a descriptor of another kind that has no getLocalBounds
PlainShape == [NoShape EXCEPT !.nodeName = "custom"]
\* no shape at all: every `shape &&` test of the code fails
NullShape == [NoShape EXCEPT !.nodeName = "null", !.hasStyle = FALSE]
\* the shape without its style object
Styleless(shape) == [shape EXCEPT !.hasStyle = FALSE]

AnchorShapes ==
    {RectShape(0, 0, 4, 4), RectShape(2, 6, 8, 4),
     CircleShape(0, 0, 4), CircleShape(10, 20, 6),
     EllipseShape(0, 0, 50, 30), EllipseShape(10, 20, 6, 2),
     PointsShape("polygon", <<>>), PointsShape("polygon", <<<<0, 0>>, <<8, 0>>, <<4, 6>>>>),
     PointsShape("polyline", <<>>), PointsShape("polyline", <<<<2, 2>>, <<6, 10>>>>),
     BoundedShape("image", 0, 0, 6, 2), PlainShape}

\* layouts: none, a preset, {name: 'angle', args: {angle}}, {name: 'absolute', args: {x, y}};
\* args is "xy" where args holds its numbers, "empty" for args = {} and
\* "missing" for a layout object without args
NoLayout == [name |-> "none", args |-> "xy", angle |-> 0, x |-> 0, y |-> 0]
Preset(name) == [NoLayout EXCEPT !.name = name]
Angle(a) == [NoLayout EXCEPT !.name = "angle", !.angle = a]
Absolute(x, y) == [NoLayout EXCEPT !.name = "absolute", !.x = x, !.y = y]
Presets == {"top", "bottom", "left", "right"}

AnchorLayouts ==
    {NoLayout} \cup {Preset(n) : n \in Presets} \cup {Angle(a) : a \in AnchorAngles}
        \cup {Absolute(3, 5), Absolute(-1, 7)}

\* layouts outside PortLayoutAny: a string that is no preset, an object of
\* another name, and absolute layouts whose args are empty or missing
MalformedLayouts ==
    {Preset("center"), Preset("custom"),
     [Absolute(0, 0) EXCEPT !.args = "empty"], [Absolute(0, 0) EXCEPT !.args = "missing"]}

\* the value undefined, where a number is expected
Undefined == [undefined |-> TRUE]

\* [layout.args.x, layout.args.y]
absoluteArgs(layout) ==
    IF layout.args = "empty" THEN <<Undefined, Undefined>> ELSE Point(layout.x, layout.y)

\* the calls whose try block throws a TypeError: shape.style.x of a shape
\* without style, layout.args.x of a layout without args
throws(shape, layout) ==
    \/ shape.nodeName \in {"rect", "circle", "ellipse"} /\ ~shape.hasStyle
    \/ /\ layout.name = "absolute" /\ layout.args = "missing"
       /\ \/ shape.nodeName \in {"rect", "circle", "ellipse"}
          \/ shape.nodeName \in {"polygon", "polyline"} /\ shape.points # <<>>

\* the angle branches that are modelled: the trigonometric formula of circles
\* and ellipses, on shapes centred at the origin, and the shapes whose result
\* does not depend on the layout.  The ray casting of rects and of polygons
\* is not.
AngleModelled(shape) ==
    \/ shape.nodeName \in {"circle", "ellipse"} /\ shape.cx = 0 /\ shape.cy = 0
    \/ shape.nodeName \in {"polygon", "polyline"} /\ shape.points = <<>>
    \/ shape.nodeName \notin {"rect", "circle", "ellipse", "polygon", "polyline"}

\* bboxOfPoints
bboxOfPoints(points) ==
    LET xs == {points[i][1] : i \in 1..Len(points)}
        ys == {points[i][2] : i \in 1..Len(points)}
    IN  [minX |-> CHOOSE v \in xs : \A o \in xs : v <= o,
         minY |-> CHOOSE v \in ys : \A o \in ys : v <= o,
         maxX |-> CHOOSE v \in xs : \A o \in xs : v >= o,
         maxY |-> CHOOSE v \in ys : \A o \in ys : v >= o]

\* computeAnchorForShape that answers every layout with the point it returns
\* for no layout
computeAnchorIgnoresLayout(shape, layout) ==
    CASE shape.nodeName = "rect" ->
           Point(shape.x + shape.width \div 2, shape.y + shape.height \div 2)
      [] shape.nodeName \in {"circle", "ellipse"} -> Point(shape.cx, shape.cy)
      [] OTHER -> Point(0, 0)

\* computeAnchorForShape(shape, layout), nodeStyle not given
computeAnchorForShape(shape, layout) ==
    \* catch (e) { return [0,0]; }
    IF throws(shape, layout) THEN Point(0, 0) ELSE
    CASE shape.nodeName = "rect" ->
           (LET x == shape.x
                y == shape.y
                w == shape.width
                h == shape.height
            IN  CASE layout.name = "top" -> Point(x + w \div 2, y)
                  [] layout.name = "bottom" -> Point(x + w \div 2, y + h)
                  [] layout.name = "left" -> Point(x, y + h \div 2)
                  [] layout.name = "right" -> Point(x + w, y + h \div 2)
                  [] layout.name = "absolute" -> absoluteArgs(layout)
                  [] layout.name \in {"none", "center", "custom"} -> Point(x + w \div 2, y + h \div 2))
      [] shape.nodeName = "circle" ->
           (LET cx == shape.cx
                cy == shape.cy
                r == shape.r
            IN  CASE layout.name = "top" -> Point(cx, cy - r)
                  [] layout.name = "bottom" -> Point(cx, cy + r)
                  [] layout.name = "left" -> Point(cx - r, cy)
                  [] layout.name = "right" -> Point(cx + r, cy)
                  [] layout.name = "absolute" -> absoluteArgs(layout)
                  [] layout.name = "angle" ->
                       <<Plus(Num(cx), Scale(r, MathCos(layout.angle))),
                         Plus(Num(cy), Scale(r, MathSin(layout.angle)))>>
                  [] layout.name \in {"none", "center", "custom"} -> Point(cx, cy))
      [] shape.nodeName = "ellipse" ->
           (LET cx == shape.cx
                cy == shape.cy
                rx == shape.rx
                ry == shape.ry
            IN  CASE layout.name = "top" -> Point(cx, cy - ry)
                  [] layout.name = "bottom" -> Point(cx, cy + ry)
                  [] layout.name = "left" -> Point(cx - rx, cy)
                  [] layout.name = "right" -> Point(cx + rx, cy)
                  [] layout.name = "absolute" -> absoluteArgs(layout)
                  [] layout.name = "angle" ->
                       <<Plus(Num(cx), Scale(rx, MathCos(layout.angle))),
                         Plus(Num(cy), Scale(ry, MathSin(layout.angle)))>>
                  [] layout.name \in {"none", "center", "custom"} -> Point(cx, cy))
      [] shape.nodeName \in {"polygon", "polyline"} ->
           (IF shape.points = <<>> THEN Point(0, 0)
            ELSE LET bb == bboxOfPoints(shape.points)
                     cx == (bb.minX + bb.maxX) \div 2
                     cy == (bb.minY + bb.maxY) \div 2
                 IN  CASE layout.name = "top" -> Point(cx, bb.minY)
                       [] layout.name = "bottom" -> Point(cx, bb.maxY)
                       [] layout.name = "left" -> Point(bb.minX, cy)
                       [] layout.name = "right" -> Point(bb.maxX, cy)
                       [] layout.name = "absolute" -> absoluteArgs(layout)
                       [] layout.name \in {"none", "center", "custom"} -> Point(cx, cy))
      [] shape.nodeName = "image" ->
           \* getLocalBounds: min = (x, y), max = (x + width, y + height)
           Point((shape.x + (shape.x + shape.width)) \div 2,
                 (shape.y + (shape.y + shape.height)) \div 2)
      [] OTHER -> Point(100 \div 2, 40 \div 2)

\* Port.updatePosition: the offset the port has stored when it returns
updatePositionOn(shape, layout, hasOwner, old) ==
    IF layout.name = "none" \/ ~hasOwner THEN old
    ELSE LET x == shape.x
             y == shape.y
             w == shape.width
             h == shape.height
             cx == shape.cx
             cy == shape.cy
             r == shape.r
             p0 == Point(0, 0)
             p1 == IF shape.nodeName # "rect" THEN p0
                   ELSE CASE layout.name = "top" -> Point(x + w \div 2, y)
                          [] layout.name = "bottom" -> Point(x + w \div 2, y + h)
                          [] layout.name = "left" -> Point(x, y + h \div 2)
                          [] layout.name = "right" -> Point(x + w, y + h \div 2)
                          [] OTHER -> p0
             p2 == IF shape.nodeName # "circle" THEN p1
                   ELSE CASE layout.name = "top" -> Point(cx, cy - r)
                          [] layout.name = "bottom" -> Point(cx, cy + r)
                          [] layout.name = "left" -> Point(cx - r, cy)
                          [] layout.name = "right" -> Point(cx + r, cy)
                          [] layout.name = "angle" ->
                               <<Plus(Num(cx), Scale(r, MathCos(layout.angle))),
                                 Plus(Num(cy), Scale(r, MathSin(layout.angle)))>>
                          [] OTHER -> p1
         IN  IF layout.name = "absolute" THEN Point(layout.x, layout.y) ELSE p2

\* the offsets a port may have stored before the call
StoredOffsets == {Point(0, 0), Point(4, 2)}

AnchorInputs ==
    {in \in [shape : AnchorShapes, layout : AnchorLayouts,
             owner : BOOLEAN, old : StoredOffsets] :
        in.layout.name = "angle" => AngleModelled(in.shape)}

\* a shape, a layout and a port have been chosen
AnchorInit ==
    /\ Constructed
    /\ \E in \in AnchorInputs : calc = Call("anchor", in, <<>>)

ComputeAnchorForShape ==
    /\ calc.fn = "anchor"
    /\ calc' = Call("computeAnchorForShape", calc.in,
                    computeAnchorForShape(calc.in.shape, calc.in.layout))
    /\ UNCHANGED <<diagramVars, pluginVars, last>>

UpdatePosition ==
    /\ calc.fn = "anchor"
    /\ calc' = Call("updatePosition", calc.in,
                    updatePositionOn(calc.in.shape, calc.in.layout,
                                     calc.in.owner, calc.in.old))
    /\ UNCHANGED <<diagramVars, pluginVars, last>>

AnchorNext == ComputeAnchorForShape \/ UpdatePosition

\* the two anchor computations alone, on every shape and layout
AnchorSpec == AnchorInit /\ [][AnchorNext]_vars

\* every kind of argument, the ones outside the declared types included
DegradedInputs ==
    {in \in [shape : AnchorShapes \cup {Styleless(sh) : sh \in AnchorShapes} \cup {NullShape},
             layout : AnchorLayouts \cup MalformedLayouts,
             owner : {TRUE}, old : {Point(0, 0)}] :
        in.layout.name = "angle" => AngleModelled(in.shape) \/ throws(in.shape, in.layout)}

DegradedInit ==
    /\ Constructed
    /\ \E in \in DegradedInputs : calc = Call("anchor", in, <<>>)

\* computeAnchorForShape alone, on every kind of argument
DegradedSpec == DegradedInit /\ [][ComputeAnchorForShape]_vars

(***************************************************************************)
(* Routers: NormalRouter, OrthogonalRouter and ManhattanRouter as functions*)
(* of the endpoints and the waypoints.  Coordinates are even integers, so  *)
(* that (x0 + x1) / 2 is an integer; steps are positive integers.          *)
(***************************************************************************)
RouteXs == {-30, -10, -6, 0, 4, 10, 20, 100}
RouteYs == {0, 100}
RoutePoints == {<<<<x0, y0>>, <<x1, y1>>>> : x0 \in RouteXs, x1 \in RouteXs,
                                           y0 \in {0}, y1 \in RouteYs}
RouteVertices == {<<>>, <<<<50, 50>>>>, <<<<7, 3>>, <<50, 50>>, <<-2, 9>>>>}
\* the step option of the constructor; 0 stands for no step given
RouteSteps == {0, 4, 10}

\* Math.round that drops the fraction
MathRoundTruncates(n, d) == IF n >= 0 THEN n \div d ELSE -((-n) \div d)

\* Math.round(n / d) for integers n and d > 0: the nearest integer, a half
\* going up
MathRound(n, d) == (2 * n + d) \div (2 * d)

\* [points[0], ...vertices, points[1]]
threaded(points, vertices) == <<points[1]>> \o vertices \o <<points[2]>>

\* a router that bends whatever it is given
routeBendsAlways(points, vertices) ==
    LET midX == (points[1][1] + points[2][1]) \div 2
    IN  <<points[1], <<midX, points[1][2]>>, <<midX, points[2][2]>>, points[2]>>

\* a router that keeps only the first waypoint
routeKeepsOneVertex(points, vertices) ==
    IF vertices # <<>> THEN <<points[1], vertices[1], points[2]>> ELSE points

\* a router that never bends
routeNeverBends(points, vertices) ==
    IF vertices # <<>> THEN <<points[1]>> \o vertices \o <<points[2]>> ELSE points

\* a router that bends at the vertical midpoint
routeBendsAtMidY(points, vertices) ==
    IF vertices # <<>> THEN threaded(points, vertices)
    ELSE LET midY == (points[1][2] + points[2][2]) \div 2
         IN  <<points[1], <<points[1][1], midY>>, <<points[2][1], midY>>, points[2]>>

\* NormalRouter.route(points, vertices)
NormalRouter(points, vertices) ==
    IF vertices # <<>> THEN threaded(points, vertices) ELSE points

\* OrthogonalRouter.route(points, vertices)
OrthogonalRouter(points, vertices) ==
    IF vertices # <<>> THEN threaded(points, vertices)
    ELSE LET start == points[1]
             end == points[Len(points)]
             midX == (start[1] + end[1]) \div 2
         IN  <<start, <<midX, start[2]>>, <<midX, end[2]>>, end>>

\* the step route() works with: this.options.step || 10
stepOf(option) == IF option = 0 THEN 10 ELSE option

\* new ManhattanRouter({step: option}).route(points, vertices)
ManhattanRouter(option, points, vertices) ==
    IF vertices # <<>> THEN threaded(points, vertices)
    ELSE LET start == points[1]
             end == points[Len(points)]
             step == stepOf(option)
             midX == MathRound(start[1] + end[1], 2 * step) * step
         IN  <<start, <<midX, start[2]>>, <<midX, end[2]>>, end>>

RouteInputs == [points : RoutePoints, vertices : RouteVertices, step : RouteSteps]

RouteInit ==
    /\ Constructed
    /\ \E in \in RouteInputs : calc = Call("route", in, <<>>)

RouteNormal ==
    /\ calc.fn = "route"
    /\ calc' = Call("NormalRouter", calc.in, NormalRouter(calc.in.points, calc.in.vertices))
    /\ UNCHANGED <<diagramVars, pluginVars, last>>

RouteOrthogonal ==
    /\ calc.fn = "route"
    /\ calc' = Call("OrthogonalRouter", calc.in,
                    OrthogonalRouter(calc.in.points, calc.in.vertices))
    /\ UNCHANGED <<diagramVars, pluginVars, last>>

RouteManhattan ==
    /\ calc.fn = "route"
    /\ calc' = Call("ManhattanRouter", calc.in,
                    ManhattanRouter(calc.in.step, calc.in.points, calc.in.vertices))
    /\ UNCHANGED <<diagramVars, pluginVars, last>>

RouteNext == RouteNormal \/ RouteOrthogonal \/ RouteManhattan

\* the three routers alone, on every pair of endpoints and list of waypoints
RouterSpec == RouteInit /\ [][RouteNext]_vars

(***************************************************************************)
(* Path anchors: computeAnchor as a function of a list of points and an    *)
(* address.  Coordinates are integers and every segment is horizontal,     *)
(* vertical, of length 0 or a multiple of the 3-4-5 triangle of length 10, *)
(* so that Math.hypot and the direction of a segment are exact.  opts.t is *)
(* a number of halves.  The numbers of a result (x, y, tangent, normal)    *)
(* are kept in tenths: 10 stands for 1, where the direction (0.6, 0.8) is  *)
(* <<6, 8>>.  An absent option is <<>>, a given one <<value>>.             *)
(***************************************************************************)
AnchorPaths ==
    {<<>>, <<<<5, 5>>>>,
     <<<<0, 0>>, <<10, 0>>>>, <<<<10, 0>>, <<0, 0>>>>, <<<<0, 0>>, <<6, 8>>>>,
     <<<<0, 0>>, <<10, 0>>, <<10, 10>>>>, <<<<0, 0>>, <<-8, -6>>, <<-8, 4>>>>,
     <<<<2, 2>>, <<2, 2>>, <<2, 12>>>>, <<<<0, 0>>, <<0, 10>>, <<0, 10>>>>,
     <<<<0, 0>>, <<6, 8>>, <<6, 8>>, <<16, 8>>>>,
     <<<<4, 4>>, <<4, 4>>>>, <<<<4, 4>>, <<4, 4>>, <<4, 4>>>>}

\* {t, snap, segmentIndex, offset: {along, normal}}; t in halves
AnchorOpts ==
    [t : {<<>>, <<-1>>, <<0>>, <<1>>, <<2>>, <<3>>},
     snap : {"none", "start", "middle", "end"},
     segmentIndex : {<<>>, <<-1>>, <<0>>, <<1>>, <<2>>, <<5>>},
     along : {0, 5}, normal : {0, 3}]

\* Math.hypot(dx, dy), on the segments above
MathHypot(dx, dy) == CHOOSE l \in 0..20 : l * l = dx * dx + dy * dy

\* a direction that is not defined for a segment of length 0
dirOfUnguarded(dx, dy, len) ==
    IF len > 0 THEN <<(10 * dx) \div len, (10 * dy) \div len>> ELSE <<0, 0>>

\* len > 0 ? [dx / len, dy / len] : [1, 0], in tenths
dirOf(dx, dy, len) ==
    IF len > 0 THEN <<(10 * dx) \div len, (10 * dy) \div len>> ELSE <<10, 0>>

\* a resolution of t that takes every snap for the middle
resolveTIgnoresSnap(opts) ==
    IF opts.t # <<>>
    THEN (IF opts.t[1] < 0 THEN 0 ELSE IF opts.t[1] > 2 THEN 2 ELSE opts.t[1])
    ELSE 1

\* a resolution of t that keeps a t outside [0,1] as it is
resolveTUnclamped(opts) ==
    IF opts.t # <<>> THEN opts.t[1]
    ELSE IF opts.snap = "start" THEN 0 ELSE IF opts.snap = "end" THEN 2 ELSE 1

\* twice t: Math.min(1, Math.max(0, opts.t)), or the snap, or 0.5
resolveT(opts) ==
    IF opts.t # <<>>
    THEN (IF opts.t[1] < 0 THEN 0 ELSE IF opts.t[1] > 2 THEN 2 ELSE opts.t[1])
    ELSE IF opts.snap = "start" THEN 0 ELSE IF opts.snap = "end" THEN 2 ELSE 1

\* the segments {a, b, len, dir} of a list of points, dir in tenths
segsOf(pts) ==
    [i \in 1..(Len(pts) - 1) |->
        LET a == pts[i]
            b == pts[i + 1]
            dx == b[1] - a[1]
            dy == b[2] - a[2]
            len == MathHypot(dx, dy)
        IN  [a |-> a, b |-> b, len |-> len,
             dir |-> dirOf(dx, dy, len)]]

\* the sum of the lengths of the first n segments
RECURSIVE lenBefore(_, _)
lenBefore(segs, n) == IF n = 0 THEN 0 ELSE lenBefore(segs, n - 1) + segs[n].len

\* computeAnchor(points, opts)
computeAnchor(points, opts) ==
    LET pts == IF Len(points) >= 2 THEN points ELSE <<<<0, 0>>, <<0, 0>>>>
        segs == segsOf(pts)
        total == lenBefore(segs, Len(segs))
        t2 == resolveT(opts)
        \* the segments where acc + segs[i].len >= targetLen
        hits == {i \in 1..Len(segs) : 2 * lenBefore(segs, i) >= t2 * total}
        found == IF hits = {} THEN 0 ELSE CHOOSE i \in hits : \A j \in hits : i <= j
        segIdx == IF opts.segmentIndex # <<>>
                  THEN (IF opts.segmentIndex[1] < 0 THEN 1
                        ELSE IF opts.segmentIndex[1] > Len(segs) - 1 THEN Len(segs)
                        ELSE opts.segmentIndex[1] + 1)
                  ELSE IF found = 0 THEN 1 ELSE found
        acc == IF opts.segmentIndex = <<>> /\ found = 0 THEN total
               ELSE lenBefore(segs, segIdx - 1)
        seg == segs[segIdx]
        \* twice targetLen - acc; local = (targetLen - acc) / seg.len, and
        \* (b - a) * local = dir * (targetLen - acc)
        local2 == IF seg.len > 0 THEN t2 * total - 2 * acc ELSE 0
        tx == seg.dir[1]
        ty == seg.dir[2]
    IN  IF total = 0
        THEN [x |-> 10 * pts[1][1], y |-> 10 * pts[1][2],
              tangent |-> segs[1].dir, normal |-> <<-segs[1].dir[2], segs[1].dir[1]>>]
        ELSE [x |-> 10 * seg.a[1] + (tx * local2) \div 2 + tx * opts.along + (-ty) * opts.normal,
              y |-> 10 * seg.a[2] + (ty * local2) \div 2 + ty * opts.along + tx * opts.normal,
              tangent |-> <<tx, ty>>, normal |-> <<-ty, tx>>]

PathInputs == [points : AnchorPaths, opts : AnchorOpts]

PathInit ==
    /\ Constructed
    /\ \E in \in PathInputs : calc = Call("path", in, <<>>)

ComputeAnchor ==
    /\ calc.fn = "path"
    /\ calc' = Call("computeAnchor", calc.in, computeAnchor(calc.in.points, calc.in.opts))
    /\ UNCHANGED <<diagramVars, pluginVars, last>>

PathNext == ComputeAnchor

\* computeAnchor alone, on every path and address
PathSpec == PathInit /\ [][PathNext]_vars

(***************************************************************************)
(* Boundary points: Edge.getNodeEdgePoint as a function of the node's      *)
(* primary shape, the node's position and a direction, and the two path    *)
(* ends updatePositionFromNodes takes for an edge between two nodes.       *)
(* Positions are integers; the second node lies on an axis or on a 3-4-5   *)
(* diagonal from the first, so that the unit direction is exact.  A        *)
(* direction is kept in tenths (<<6, 8>> is (0.6, 0.8)) and a resulting    *)
(* coordinate in 120ths, which holds every quotient by 0.6, 0.8 and 1.     *)
(***************************************************************************)
EdgeShapes ==
    {CircleShape(0, 0, 5), CircleShape(2, 1, 10),
     RectShape(0, 0, 12, 8), RectShape(-4, -6, 8, 12), RectShape(-8, -6, 16, 12),
     EllipseShape(0, 0, 6, 4)}

EdgeOffsets ==
    {<<0, 0>>, <<20, 0>>, <<-20, 0>>, <<0, 20>>, <<0, -20>>,
     <<12, 16>>, <<-16, 12>>, <<-12, -16>>, <<16, -12>>}

\* getNodeEdgePoint that answers every rect with its centre
getNodeEdgePointCentre(shape, np, dir) ==
    IF shape.nodeName = "circle"
    THEN <<120 * (np[1] + shape.cx) + 12 * dir[1] * shape.r,
           120 * (np[2] + shape.cy) + 12 * dir[2] * shape.r>>
    ELSE IF shape.nodeName = "rect"
    THEN <<120 * (np[1] + shape.x) + 60 * shape.width,
           120 * (np[2] + shape.y) + 60 * shape.height>>
    ELSE <<120 * np[1], 120 * np[2]>>

\* Edge.getNodeEdgePoint(node, dirX, dirY) for a node with this primary
\* shape at position np
getNodeEdgePointOn(shape, np, dir) ==
    IF shape.nodeName = "circle"
    THEN <<120 * (np[1] + shape.cx) + 12 * dir[1] * shape.r,
           120 * (np[2] + shape.cy) + 12 * dir[2] * shape.r>>
    ELSE IF shape.nodeName = "rect"
    THEN LET x == 120 * (np[1] + shape.x)
             y == 120 * (np[2] + shape.y)
             width == 120 * shape.width
             height == 120 * shape.height
             centerX == x + width \div 2
             centerY == y + height \div 2
             \* centerY + dirY * t with t = (x + width - centerX) / dirX, and so on
             rightY == centerY + (dir[2] * (x + width - centerX)) \div dir[1]
             leftY == centerY + (dir[2] * (x - centerX)) \div dir[1]
             bottomX == centerX + (dir[1] * (y + height - centerY)) \div dir[2]
             topX == centerX + (dir[1] * (y - centerY)) \div dir[2]
         IN  IF dir[1] > 0 /\ rightY >= y /\ rightY <= y + height THEN <<x + width, rightY>>
             ELSE IF dir[1] < 0 /\ leftY >= y /\ leftY <= y + height THEN <<x, leftY>>
             ELSE IF dir[2] > 0 /\ bottomX >= x /\ bottomX <= x + width
                  THEN <<bottomX, y + height>>
             ELSE IF dir[2] < 0 /\ topX >= x /\ topX <= x + width THEN <<topX, y>>
             ELSE <<centerX, centerY>>
    ELSE <<120 * np[1], 120 * np[2]>>

\* the [finalX1, finalY1] and [finalX2, finalY2] of updatePositionFromNodes
\* for two nodes
pathEnds(source, p1, target, p2) ==
    LET dx == p2[1] - p1[1]
        dy == p2[2] - p1[2]
        distance == MathHypot(dx, dy)
        dir == <<(10 * dx) \div distance, (10 * dy) \div distance>>
    IN  IF distance > 0
        THEN <<getNodeEdgePointOn(source, p1, dir),
               getNodeEdgePointOn(target, p2, <<-dir[1], -dir[2]>>)>>
        ELSE <<<<120 * p1[1], 120 * p1[2]>>, <<120 * p2[1], 120 * p2[2]>>>>

EdgePointInputs ==
    [source : EdgeShapes, target : EdgeShapes, p1 : {<<0, 0>>, <<3, -2>>}, by : EdgeOffsets]

EdgePointInit ==
    /\ Constructed
    /\ \E in \in EdgePointInputs : calc = Call("ends", in, <<>>)

\* updatePositionFromNodes on an edge between two nodes
PathEnds ==
    /\ calc.fn = "ends"
    /\ calc' = Call("pathEnds", calc.in,
                    pathEnds(calc.in.source, calc.in.p1, calc.in.target,
                             <<calc.in.p1[1] + calc.in.by[1], calc.in.p1[2] + calc.in.by[2]>>))
    /\ UNCHANGED <<diagramVars, pluginVars, last>>

\* getNodeEdgePoint with a direction of length 0
GetNodeEdgePoint ==
    /\ calc.fn = "ends"
    /\ calc' = Call("getNodeEdgePoint", calc.in,
                    getNodeEdgePointOn(calc.in.source, calc.in.p1, <<0, 0>>))
    /\ UNCHANGED <<diagramVars, pluginVars, last>>

EdgePointNext == PathEnds \/ GetNodeEdgePoint

\* the boundary points alone, on every pair of shapes and direction
EdgePointSpec == EdgePointInit /\ [][EdgePointNext]_vars

(***************************************************************************)
(* Markers: EdgeMarker.update as a function of the marker and an anchor.   *)
(* A marker is its configuration (kind of display object, size) and what   *)
(* update writes: the local position, the points of a polygon, the local   *)
(* rotation of another display object.  Tangents are unit vectors in       *)
(* tenths; cos and sin of atan2(tangent.y, tangent.x) are the components   *)
(* of the tangent; points are kept in hundredths and a rotation as the     *)
(* tangent it is the angle of.                                             *)
(***************************************************************************)
MarkerKinds == {"polygon", "circle", "none"}
MarkerSizes == {6, 10}
MarkerTangents ==
    {<<10, 0>>, <<0, 10>>, <<-10, 0>>, <<0, -10>>, <<6, 8>>, <<-8, 6>>, <<-6, -8>>, <<8, -6>>}
MarkerAnchors ==
    [x : {0, 30}, y : {0, -40}, tangent : MarkerTangents]
NullAnchor == [x |-> 0, y |-> 0, tangent |-> <<>>]

\* the three points of the triangle for a tangent: (0,0), (-size, size * k)
\* and (-size, -size * k), k = 0.6, rotated by the angle of the tangent
rotated(size, tangent) ==
    LET cos == tangent[1]
        sin == tangent[2]
        p2 == <<-(10 * size), size * 6>>
        p3 == <<-(10 * size), -(size * 6)>>
    IN  <<<<0, 0>>,
          <<p2[1] * cos - p2[2] * sin, p2[1] * sin + p2[2] * cos>>,
          <<p3[1] * cos - p3[2] * sin, p3[1] * sin + p3[2] * cos>>>>

\* new EdgeMarker(cfg)
NewMarker(kind, size) ==
    [kind |-> kind, size |-> size, position |-> <<0, 0>>,
     points |-> IF kind = "polygon" THEN rotated(size, <<10, 0>>) ELSE <<>>,
     euler |-> <<10, 0>>]

\* an update that turns the points the marker has by the angle of the tangent
updateTurnsFurther(marker, anchor) ==
    IF marker.kind = "none" \/ anchor = NullAnchor THEN marker
    ELSE IF marker.kind = "polygon"
    THEN [marker EXCEPT
            !.position = <<anchor.x, anchor.y>>,
            !.points = [i \in 1..3 |->
                          <<(@[i][1] * anchor.tangent[1] - @[i][2] * anchor.tangent[2]) \div 10,
                            (@[i][1] * anchor.tangent[2] + @[i][2] * anchor.tangent[1]) \div 10>>]]
    ELSE [marker EXCEPT !.position = <<anchor.x, anchor.y>>, !.euler = anchor.tangent]

\* EdgeMarker.update(anchor)
update(marker, anchor) ==
    IF marker.kind = "none" \/ anchor = NullAnchor THEN marker
    ELSE IF marker.kind = "polygon"
    THEN [marker EXCEPT !.position = <<anchor.x, anchor.y>>,
                        !.points = rotated(marker.size, anchor.tangent)]
    ELSE [marker EXCEPT !.position = <<anchor.x, anchor.y>>, !.euler = anchor.tangent]

MarkerInit ==
    /\ Constructed
    /\ \E kind \in MarkerKinds, size \in MarkerSizes :
          calc = Call("EdgeMarker", NullAnchor, NewMarker(kind, size))

\* update(anchor) on the marker as the calls before have left it
Update ==
    /\ calc.fn \in {"EdgeMarker", "update"}
    /\ \E anchor \in MarkerAnchors \cup {NullAnchor} :
          calc' = Call("update", anchor, update(calc.out, anchor))
    /\ UNCHANGED <<diagramVars, pluginVars, last>>

MarkerNext == Update

\* a marker and the updates it gets
MarkerSpec == MarkerInit /\ [][MarkerNext]_vars

(***************************************************************************)
(* The registries of the graph and the operations that add and remove      *)
(* nodes and edges by id.                                                  *)
(***************************************************************************)
\* an Edge object as a member of a registry or of a query result
EdgeRef(id) == [k |-> "edge", n |-> "", i |-> id]

\* Graph.getNodes: the values of nodesById.  appendChild and removeChild
\* pass every child that has getPrimaryShape to registerNode and
\* unregisterNode, and Edge has that method: each registered edge is in
\* nodesById too, under its own id.
getNodes(W) ==
    {NodeRef(n) : n \in W.nodesById} \cup {EdgeRef(id) : id \in W.edgesById}

\* Graph.getEdges: the values of edgesById, or the g-edge elements of the
\* document when the registry is empty
getEdges(W) ==
    {EdgeRef(id) : id \in (IF W.edgesById = {} THEN W.children ELSE W.edgesById)}

\* Graph.getNodeById called with the id of the Edge object `id`
getNodeByIdOfEdge(W, id) ==
    IF id \in W.edgesById \cup W.children THEN EdgeRef(id) ELSE Null

\* connectedEdges.forEach(edge => this.removeChild(edge))
RECURSIVE removeEach(_, _)
removeEach(W, ids) ==
    IF ids = {} THEN W
    ELSE LET id == CHOOSE i \in ids : TRUE
         IN  removeEach(removeChild(W, id), ids \ {id})

\* the g-edge elements whose getSource() or getTarget() is the string nodeId
connectedEdges(W, n) ==
    {id \in W.children : \/ W.edges[id].source = StringRef(n)
                         \/ W.edges[id].target = StringRef(n)}

\* Graph.removeNode; the ports of the node leave the document with it
removeNode(W, n) ==
    IF n \in W.nodesById
    THEN [removeEach(W, connectedEdges(W, n))
            EXCEPT !.nodesById = @ \ {n},
                   !.ports = @ \ {p \in PortIds : portOwner[p] = n}]
    ELSE W

\* a Node or Port that is in the document
Mounted(W, ref) ==
    \/ ref = Null
    \/ ref.k = "node" /\ ref.n \in W.nodesById
    \/ ref.k = "port" /\ ref.n \in W.ports

\* an object of the model still refers to the Node n or to one of its ports
StillReferenced(n) ==
    LET objs == {NodeRef(n)} \cup {PortRef(p) : p \in {q \in PortIds : portOwner[q] = n}}
    IN  \/ startEndpoint \in objs
        \/ \E id \in DOMAIN edges :
              {edges[id].source, edges[id].target,
               edges[id].sourceNode, edges[id].targetNode} \cap objs # {}

\* graph.removeNode(n)
RemoveNode(n) ==
    /\ last' = Op("removeNode", NodeRef(n), "none")
    /\ SetWorld(Collect(removeNode(World, n), tempEdge))
    /\ UNCHANGED pluginVars

\* graph.addNode(config of n) once n has been removed and nothing refers to
\* the removed object; the new node has no port
AddNode(n) ==
    /\ n \notin nodesById
    /\ ~StillReferenced(n)
    /\ last' = Other
    /\ SetWorld([World EXCEPT !.nodesById = @ \cup {n},
                              !.pos[n] = <<nodeConfig[n].x, nodeConfig[n].y>>])
    /\ UNCHANGED pluginVars

\* graph.removeEdge(id of a child edge)
RemoveEdge(id) ==
    /\ id \in PermanentChildren
    /\ last' = EdgeOp("removeEdge", id)
    /\ SetWorld(Collect(removeChild(World, id), tempEdge))
    /\ UNCHANGED pluginVars

\* edges of the data loaded while nodes are added and removed
MaxLoaded == 1

RegistryNext ==
    \/ \E ends \in EdgeEnds : AddEdge(ends[1], ends[2])
    \/ \E id \in EdgeIds : AppendChild(id)
    \/ \E id \in EdgeIds : RemoveChild(id)
    \/ \E id \in EdgeIds : RemoveEdge(id)
    \/ \E n \in NodeIds : RemoveNode(n)
    \/ \E n \in NodeIds : AddNode(n)
    \/ \E es \in DataEdges : Len(es) <= MaxLoaded /\ SetData(es)
    \/ \E id \in EdgeIds : TryConnectTimer(id)
    \/ \E ep \in PickResults : Mounted(World, ep) /\ PointerDown(FALSE, ep)
    \/ \E ep \in PickResults : Mounted(World, ep) /\ PointerUp(FALSE, ep, "none")

SyncNext ==
    \/ \E ends \in EdgeEnds : AddEdge(ends[1], ends[2])
    \/ \E id \in EdgeIds : AppendChild(id)
    \/ \E id \in EdgeIds : RemoveChild(id)
    \/ \E id \in EdgeIds : ConnectTo(id)
    \/ \E id \in EdgeIds : DisconnectedAgain(id)
    \/ \E id \in EdgeIds : TryConnectTimer(id)
    \/ \E n \in NodeIds, p \in MovePositions : SetPosition(n, p)

PluginNext ==
    \/ \E async \in BOOLEAN, ep \in PickResults : PointerDown(async, ep)
    \/ \E ep \in PickResults : PickDownResolved(ep)
    \/ \E p \in PointerPositions \cup {NoPos} : PointerMove(p)
    \/ \E async \in BOOLEAN, ep \in PickResults, fail \in Failures : PointerUp(async, ep, fail)
    \/ \E ep \in PickResults, fail \in Failures : PickUpResolved(ep, fail)
    \/ Uninstall

GestureNext ==
    \/ PluginNext
    \/ \E id \in EdgeIds : TryConnectTimer(id)

LoadNext ==
    \/ \E es \in DataEdges : SetData(es)
    \/ \E p \in PortIds : CreatePort(p)
    \/ \E id \in EdgeIds : TryConnectTimer(id)
    \/ \E n \in NodeIds, p \in MovePositions : SetPosition(n, p)

Next == SyncNext \/ PluginNext \/ LoadNext \/ RegistryNext

\* the whole library
Spec == Init /\ [][Next]_vars

\* the synchronization protocol alone, driven through the edge and node API
SyncSpec == Init /\ [][SyncNext]_vars

\* the connection gesture alone, on a diagram nothing else changes
GestureSpec == Init /\ [][GestureNext]_vars

MoveNext ==
    \/ GestureNext
    \/ \E n \in NodeIds, p \in MovePositions : SetPosition(n, p)

\* the connection gesture on a diagram whose nodes are moved meanwhile
MoveSpec == Init /\ [][MoveNext]_vars

\* diagrams whose nodes and edges are added and removed by id
RegistrySpec == Init /\ [][RegistryNext]_vars

\* diagrams loaded with setData
LoadSpec == Init /\ [][LoadNext]_vars

\* a pointer-down pick is pending: its callback PickDownResolved is enabled
PickDownPending == pendingDown > 0

\* a _tryConnect timer is due: TryConnectTimer is enabled
TimerDue == \E id \in DOMAIN edges : timers[id] > 0

\* the connection gesture on an event loop that runs every settled promise's
\* callback and every timer that is due.  The last two conjuncts are weak
\* fairness of PickDownResolved and of TryConnectTimer, with ENABLED written
\* out as the guard of the action.
FairGestureSpec ==
    /\ GestureSpec
    /\ WF_vars(\E ep \in PickResults, fail \in Failures : PickUpResolved(ep, fail))
    /\ \/ []<>(~PickDownPending)
       \/ []<><<\E ep \in PickResults : PickDownResolved(ep)>>_vars
    /\ \/ []<>(~TimerDue)
       \/ []<><<\E id \in EdgeIds : TryConnectTimer(id)>>_vars

(***************************************************************************)
(* Properties of the connection gesture.                                   *)
(***************************************************************************)
\* the step is a pointer-up, or a resolved pointer-up pick, that was handled
\* with a gesture in progress
ReleaseHandled ==
    /\ last'.op \in {"pointerup", "upResolved"}
    /\ last'.fail \notin {"ignored", "async"}
    /\ startEndpoint # Null

\* C1: a gesture started from the idle plugin on endpoint A and released on an
\* endpoint B other than A adds exactly one edge to the graph, from A to B;
\* afterwards no edge of the graph has a virtual endpoint and startEndpoint,
\* tempEdge, virtualTarget and startPos are null.
C1_ReleaseOnOtherEndpointConnects ==
    [][(/\ ReleaseHandled
        /\ last'.fail = "none"
        /\ Commits(last'.ep)
        /\ graph # NoGraph
        /\ TemporaryChildren = {tempEdge})
       => /\ \E id \in children' \ children :
                /\ children' = (children \ {tempEdge}) \cup {id}
                /\ edges'[id].source = startEndpoint
                /\ edges'[id].target = last'.ep
          /\ \A id \in PermanentChildren : edges'[id] = edges[id]
          /\ TemporaryChildren' = {}
          /\ Idle']_vars

\* a synchronous release has just connected two different endpoints
C1_Connected ==
    /\ last.op = "pointerup"
    /\ last.fail = "none"
    /\ Idle
    /\ TemporaryChildren = {}
    /\ \E id \in PermanentChildren :
          /\ edges[id].target = last.ep
          /\ edges[id].source \in Endpoints \ {last.ep}
          /\ edges[id].sourceNode = edges[id].source
          /\ edges[id].targetNode = last.ep

\* C2: a gesture released where the pick finds no endpoint, or finds the start
\* endpoint again, is cancelled: the permanent edges of the graph are the same
\* as before, the temporary edge is no child of the graph any more and
\* startEndpoint, tempEdge, virtualTarget and startPos are null.
C2_ReleaseElsewhereCancels ==
    [][(ReleaseHandled /\ ~Commits(last'.ep))
       => /\ PermanentChildren' = PermanentChildren
          /\ \A id \in PermanentChildren : edges'[id] = edges[id]
          /\ TemporaryChildren' = TemporaryChildren \ {tempEdge}
          /\ Idle']_vars

\* a synchronous release on the start endpoint has just cancelled a gesture
C2_Cancelled ==
    /\ last.op = "pointerup"
    /\ last.fail = "none"
    /\ last.ep # Null
    /\ graph # NoGraph
    /\ Idle
    /\ children = {}

\* C3: the pick of a pointer-down that resolves after a pointer-up was
\* delivered does nothing: no edge is created or appended and startEndpoint,
\* tempEdge, virtualTarget and startPos keep their values.
C3_LateDownPickIsNoOp ==
    [][(last.op = "pointerup" /\ pendingDown' < pendingDown)
       => UNCHANGED <<edges, children, bus, startEndpoint, tempEdge, virtualTarget,
                      startPos>>]_vars

C5_ReleaseAlwaysCleansUp ==
    [][ReleaseHandled => (tempEdge \notin children' /\ Idle')]_vars

\* C6: at most one edge of the graph has a virtual endpoint, it is the
\* plugin's tempEdge and its source is a node or a port; with no gesture in
\* progress no edge of the graph has a virtual endpoint.
C6_OneTemporaryEdge ==
    /\ Cardinality(TemporaryChildren) <= 1
    /\ TemporaryChildren \subseteq {tempEdge}
    /\ \A id \in TemporaryChildren : edges[id].source \in Endpoints
    /\ (startEndpoint = Null /\ tempEdge = NoEdge) => TemporaryChildren = {}

(***************************************************************************)
(* Properties of the synchronization between nodes and edges.              *)
(***************************************************************************)
\* the listeners connectTo has registered for the edge `id`, as the edge
\* remembers them
OwnListeners(E, id) ==
    {Listener(id, "source", E[id].onSourceMoved),
     Listener(id, "target", E[id].onTargetMoved)}

\* connectTo has run on the edge while it was in the graph, and it still is
Connected(id) ==
    /\ id \in children
    /\ edges[id].sourceNode # Null
    /\ edges[id].targetNode # Null
    /\ ListenersOf(bus, id) # {}

\* the endpoint is the node n, or a port of the node n
LocatedBy(ep, n) ==
    \/ ep.k = "node" /\ ep.n = n
    \/ ep.k = "port" /\ portOwner[ep.n] = n

\* the node:moved listeners of an edge compare the id of the event with this
RefersTo(ep, n) == ep.k \in {"node", "port"} /\ ep.n = n

\* C7: after a setPosition that relocates the source or the target of a
\* connected edge (the node, or the owner of the port), the path of the edge
\* is the one computed from the positions of its endpoints after the move.
C7_PathFollowsMove ==
    [][\A n \in NodeIds, id \in DOMAIN edges :
          (/\ pos'[n] # pos[n]
           /\ Connected(id)
           /\ LocatedBy(edges[id].sourceNode, n) \/ LocatedBy(edges[id].targetNode, n))
          => edges'[id].path = EdgePath(pos', portOffset', virtualPos',
                                        edges'[id].sourceNode, edges'[id].targetNode)]_vars

\* C8: connectTo on an edge that is in the graph leaves a source and a target
\* listener of the edge on the eventBus; when the edge is removed from the
\* graph none of its listeners stays, and a node that moves afterwards does
\* not change the edge.
C8_ListenersFollowMembership ==
    [][/\ (last'.op = "connectTo" /\ last'.edge \in children)
          => /\ edges'[last'.edge].onSourceMoved # 0
             /\ edges'[last'.edge].onTargetMoved # 0
             /\ OwnListeners(edges', last'.edge) \subseteq bus'
       /\ \A id \in children \ children' : ListenersOf(bus', id) = {}
       /\ \A id \in DOMAIN edges \ children :
             pos' # pos => (id \in DOMAIN edges' /\ edges'[id] = edges[id])]_vars

\* an edge that was connected in the graph has been removed from it, and a
\* node has moved since
C8_RemovedAfterConnect ==
    \E id \in DOMAIN edges :
        /\ id \notin children
        /\ edges[id].onSourceMoved # 0
        /\ edges[id].onTargetMoved # 0
        /\ edges[id].sourceNode.k = "node"
        /\ ListenersOf(bus, id) = {}
        /\ edges[id].path # EdgePath(pos, portOffset, virtualPos,
                                     edges[id].sourceNode, edges[id].targetNode)

\* the eventBus holds at most one source and one target listener of an edge,
\* the ones the edge remembers, and none of an edge that is in no graph
AtMostOnePair(B, E, C) ==
    \A id \in DOMAIN E :
        /\ ListenersOf(B, id) \subseteq OwnListeners(E, id)
        /\ Cardinality({l \in ListenersOf(B, id) : l.role = "source"}) <= 1
        /\ Cardinality({l \in ListenersOf(B, id) : l.role = "target"}) <= 1
        /\ id \notin C => ListenersOf(B, id) = {}

\* C9: whatever connectTo calls and removals an edge goes through, the
\* eventBus holds at most one source and one target listener of it and none
\* once it is out of the graph; a second disconnectedCallback, or a connectTo
\* after the removal, leaves the listeners of the eventBus as they are.
C9_OneListenerPair ==
    [][/\ AtMostOnePair(bus', edges', children')
       /\ (last'.op \in {"connectTo", "disconnectedCallback"} /\ last'.edge \notin children)
          => bus' = bus]_vars

\* disconnectedCallback has run again on an edge that was connected in the
\* graph and removed from it
C9_DisconnectedTwice ==
    /\ last.op = "disconnectedCallback"
    /\ last.edge \in DOMAIN edges
    /\ last.edge \notin children
    /\ edges[last.edge].onSourceMoved # 0
    /\ ListenersOf(bus, last.edge) = {}

\* C10: a node:moved whose id is neither the id of the source nor the id of
\* the target of an edge of the graph leaves the path, the markers and the
\* label of the edge as they are and makes no listener of the edge throw, the
\* temporary edge of a gesture included.
C10_ForeignMoveIgnored ==
    [][\A n \in NodeIds, id \in children :
          (/\ pos'[n] # pos[n]
           /\ ~RefersTo(edges[id].sourceNode, n)
           /\ ~RefersTo(edges[id].targetNode, n))
          => /\ id \in DOMAIN edges'
             /\ edges'[id] = edges[id]
             /\ id \notin thrown']_vars

(***************************************************************************)
(* Properties of loading and of adding edges.                              *)
(***************************************************************************)
\* an end of an edge that names neither a node nor a port of the diagram
NamesNothing(ref) == ref.k = "string" /\ ref.n \notin NodeIds \cup PortIds

\* the edges of the graph whose ends are the ones named by `ends`
LoadedAs(ends) ==
    {id \in children : /\ edges[id].source = StringRef(ends[1])
                       /\ edges[id].target = StringRef(ends[2])}

ReleaseSettled ==
    \/ last.op = "pointerup" /\ last.fail \notin {"ignored", "async"}
    \/ last.op = "upResolved"

\* C13: once a pointer-up delivered during a gesture has been handled and its
\* pick has settled, the plugin eventually is idle: startEndpoint, tempEdge,
\* virtualTarget and startPos are null and no edge of the graph has a virtual
\* endpoint.
C13_SettledReleaseLeadsToIdle ==
    ReleaseSettled ~> (Idle /\ TemporaryChildren = {})

\* C14: every pointer-move that finds a gesture in progress and carries
\* coordinates leaves the virtual endpoint at the pointer position and the
\* temporary edge with a path that ends there, its end marker and its label
\* placed from that path.
C14_MoveDragsTemporaryEdge ==
    [][last'.op = "pointermove"
       => /\ tempEdge # NoEdge /\ virtualTarget # Null
          /\ virtualPos'[virtualTarget.i] = last'.at
          /\ LET e == edges'[tempEdge]
             IN  /\ <<e.path[3], e.path[4]>> = last'.at
                 /\ e.endMarker = EndAnchor(e.path)
                 /\ e.label = LabelAnchor(e.path)]_vars

\* a pointer-move has dragged the end of the temporary edge away from the
\* point the gesture started at
C14_Dragged ==
    /\ last.op = "pointermove"
    /\ tempEdge \in children
    /\ last.at # startPos
    /\ <<edges[tempEdge].path[3], edges[tempEdge].path[4]>> = last.at
    /\ <<edges[tempEdge].path[1], edges[tempEdge].path[2]>> # last.at

(***************************************************************************)
(* Properties of the endpoint pick.                                        *)
(***************************************************************************)
\* C15: the pick returns a Port of the list whenever the list holds one,
\* wherever it stands; a Node of the list only when the list holds no Port;
\* null when the list holds only edges and other shapes.
C15_PickPrefersPort ==
    calc.fn = "pickFromArray"
    => LET elems == calc.in
           Of(kind) == {elems[i] : i \in {j \in 1..Len(elems) : elems[j].k = kind}}
       IN  IF Of("port") # {} THEN calc.out \in Of("port")
           ELSE IF Of("node") # {} THEN calc.out \in Of("node")
           ELSE calc.out = Null

(***************************************************************************)
(* Properties of ports.                                                    *)
(***************************************************************************)
\* C16: at every moment getAbsolutePosition of a port is the position its
\* owner was last moved to plus the offset the port has stored, with no
\* updatePosition in between.
C16_PortFollowsOwner ==
    \A p \in ports :
        getAbsolutePosition(pos, portOffset, p)
            = <<pos[portOwner[p]][1] + portOffset[p][1],
                pos[portOwner[p]][2] + portOffset[p][2]>>

(***************************************************************************)
(* Properties of the anchor computations.                                  *)
(***************************************************************************)
\* C17: for every shape of the owner and every layout, updatePosition stores
\* the point computeAnchorForShape returns for that shape and layout; a port
\* without layout or without owner keeps the offset it had.
C17_UpdatePositionIsComputeAnchor ==
    calc.fn = "updatePosition"
    => calc.out = IF calc.in.layout.name = "none" \/ ~calc.in.owner
                  THEN calc.in.old
                  ELSE computeAnchorForShape(calc.in.shape, calc.in.layout)

\* whether the point p, of whole coordinates, lies on the boundary of the shape
OnBoundary(shape, p) ==
    LET px == p[1].w
        py == p[2].w
    IN  /\ p[1].e = 0 /\ p[2].e = 0
        /\ CASE shape.nodeName = "rect" ->
                  (LET l == shape.x
                       r == shape.x + shape.width
                       t == shape.y
                       b == shape.y + shape.height
                   IN  \/ px \in {l, r} /\ t <= py /\ py <= b
                       \/ py \in {t, b} /\ l <= px /\ px <= r)
             [] shape.nodeName = "circle" ->
                  (px - shape.cx) * (px - shape.cx) + (py - shape.cy) * (py - shape.cy)
                     = shape.r * shape.r
             [] shape.nodeName = "ellipse" ->
                  shape.ry * shape.ry * (px - shape.cx) * (px - shape.cx)
                     + shape.rx * shape.rx * (py - shape.cy) * (py - shape.cy)
                     = shape.rx * shape.rx * shape.ry * shape.ry

\* the point the preset names: the midpoint of the side of a rect, the centre
\* of a circle or an ellipse moved by the radius along the axis
NamedPoint(shape, name) ==
    LET c == IF shape.nodeName = "rect"
             THEN <<(shape.x + (shape.x + shape.width)) \div 2,
                    (shape.y + (shape.y + shape.height)) \div 2>>
             ELSE <<shape.cx, shape.cy>>
        horizontal == CASE shape.nodeName = "rect" -> shape.width \div 2
                        [] shape.nodeName = "circle" -> shape.r
                        [] shape.nodeName = "ellipse" -> shape.rx
        vertical == CASE shape.nodeName = "rect" -> shape.height \div 2
                      [] shape.nodeName = "circle" -> shape.r
                      [] shape.nodeName = "ellipse" -> shape.ry
    IN  CASE name = "top" -> Point(c[1], c[2] - vertical)
          [] name = "bottom" -> Point(c[1], c[2] + vertical)
          [] name = "left" -> Point(c[1] - horizontal, c[2])
          [] name = "right" -> Point(c[1] + horizontal, c[2])

\* C18: on a rect, a circle and an ellipse each of the presets top, bottom,
\* left and right gives a point of the boundary of the shape: the midpoint of
\* the side of the rect, the centre of the circle moved by r, the centre of
\* the ellipse moved by rx to the left or right and by ry to the top or bottom.
C18_PresetOnBoundary ==
    (/\ calc.fn = "computeAnchorForShape"
     /\ calc.in.shape.nodeName \in {"rect", "circle", "ellipse"}
     /\ calc.in.layout.name \in Presets)
    => /\ OnBoundary(calc.in.shape, calc.out)
       /\ calc.out = NamedPoint(calc.in.shape, calc.in.layout.name)

\* the top of an ellipse that is not centred at the origin has been computed
C18_TopOfEllipse ==
    /\ calc.fn = "computeAnchorForShape"
    /\ calc.in.shape = EllipseShape(10, 20, 6, 2)
    /\ calc.in.layout = Preset("top")
    /\ calc.out = Point(10, 18)

\* the points stated for the ellipse with rx = 50, ry = 30
EllipseExample(a) ==
    CASE a = 0 -> Point(50, 0)
      [] a = -90 -> Point(0, -30)
      [] a = 180 -> Point(-50, 0)
      [] a = 90 -> Point(0, 30)

\* two points that differ by multiples of u only
Close(p, q) == p[1].w = q[1].w /\ p[2].w = q[2].w

C20_AbsoluteIsExact ==
    (calc.fn = "computeAnchorForShape" /\ calc.in.layout.name = "absolute")
    => calc.out = Point(calc.in.layout.x, calc.in.layout.y)

\* a finite number
IsNumber(n) == DOMAIN n = {"w", "e"}

\* C21: computeAnchorForShape returns a point of two numbers for every
\* argument: no shape, a shape of an unknown kind, a shape without style, a
\* layout that is malformed or unsupported.
C21_AlwaysAPoint ==
    calc.fn = "computeAnchorForShape" =>
        Len(calc.out) = 2 /\ IsNumber(calc.out[1]) /\ IsNumber(calc.out[2])

\* an absolute layout whose args are empty, on a rect
C21_AbsoluteWithoutNumbers ==
    /\ calc.fn = "computeAnchorForShape"
    /\ calc.in.shape = RectShape(0, 0, 4, 4)
    /\ calc.in.layout.name = "absolute" /\ calc.in.layout.args = "empty"

\* a shape without style still gets the fixed point of the catch block
C21_StylelessGetsOrigin ==
    /\ calc.fn = "computeAnchorForShape"
    /\ calc.in.shape = Styleless(RectShape(0, 0, 4, 4))
    /\ calc.out = Point(0, 0)

\* the call had no waypoints
Unrouted == calc.in.vertices = <<>>

\* C24: without waypoints NormalRouter.route returns the two endpoints it
\* was given, unchanged.
C24_NormalReturnsEndpoints ==
    calc.fn = "NormalRouter" /\ Unrouted => calc.out = calc.in.points

C24_NormalOnOffsetEndpoints ==
    /\ calc.fn = "NormalRouter" /\ Unrouted
    /\ calc.in.points = <<<<-30, 0>>, <<20, 100>>>>
    /\ calc.out = <<<<-30, 0>>, <<20, 100>>>>

\* the endpoints (0,0) and (100,100), no waypoints
ExampleRoute == Unrouted /\ calc.in.points = <<<<0, 0>>, <<100, 100>>>>
FourPoints == <<<<0, 0>>, <<50, 0>>, <<50, 100>>, <<100, 100>>>>

\* C25 as stated: the Normal router on (0,0) and (100,100) returns
\* [[0,0],[50,0],[50,100],[100,100]].
C25_NormalReturnsFourPoints ==
    calc.fn = "NormalRouter" /\ ExampleRoute => calc.out = FourPoints

\* C25, amended: on (0,0) and (100,100) it is the Orthogonal router that
\* returns [[0,0],[50,0],[50,100],[100,100]]; the Normal router returns
\* [[0,0],[100,100]].
C25_OrthogonalReturnsFourPoints ==
    ExampleRoute =>
        /\ calc.fn = "OrthogonalRouter" => calc.out = FourPoints
        /\ calc.fn = "NormalRouter" => calc.out = <<<<0, 0>>, <<100, 100>>>>

C25_NormalOnExample == calc.fn = "NormalRouter" /\ ExampleRoute /\ Len(calc.out) = 2

\* C26: with a non-empty list of waypoints each of the three routers returns
\* the first endpoint, the waypoints in their order and unmodified, the
\* second endpoint, and nothing else.
C26_WaypointsAreThreaded ==
    calc.fn \in {"NormalRouter", "OrthogonalRouter", "ManhattanRouter"} /\ ~Unrouted =>
        /\ Len(calc.out) = Len(calc.in.vertices) + 2
        /\ calc.out[1] = calc.in.points[1]
        /\ calc.out[Len(calc.out)] = calc.in.points[2]
        /\ \A i \in 1..Len(calc.in.vertices) : calc.out[i + 1] = calc.in.vertices[i]

C26_ManhattanThreadsThree ==
    /\ calc.fn = "ManhattanRouter"
    /\ Len(calc.in.vertices) = 3
    /\ calc.out = <<<<0, 0>>, <<7, 3>>, <<50, 50>>, <<-2, 9>>, <<100, 100>>>>

\* C27: without waypoints OrthogonalRouter.route returns p0, (midX, y0),
\* (midX, y1), p1 with midX = (x0 + x1) / 2; every segment is horizontal
\* or vertical.
C27_OrthogonalBendsAtMidX ==
    calc.fn = "OrthogonalRouter" /\ Unrouted =>
        LET p0 == calc.in.points[1]
            p1 == calc.in.points[2]
        IN  /\ Len(calc.out) = 4
            /\ calc.out[1] = p0 /\ calc.out[4] = p1
            /\ calc.out[2][2] = p0[2] /\ calc.out[3][2] = p1[2]
            /\ calc.out[2][1] = calc.out[3][1]
            /\ 2 * calc.out[2][1] = p0[1] + p1[1]
            /\ \A i \in 1..3 : \/ calc.out[i][1] = calc.out[i + 1][1]
                                \/ calc.out[i][2] = calc.out[i + 1][2]

C27_OrthogonalAcrossZero ==
    /\ calc.fn = "OrthogonalRouter" /\ Unrouted
    /\ calc.in.points = <<<<-30, 0>>, <<20, 100>>>>
    /\ calc.out[2] = <<-5, 0>>

\* C28: without waypoints ManhattanRouter.route returns the four points of
\* the orthogonal router with the bend x a multiple of the step nearest to
\* (x0 + x1) / 2, the step being the one given at construction or 10; where
\* the midpoint is a multiple of the step the two routers agree.
C28_ManhattanBendsAtNearestMultiple ==
    calc.fn = "ManhattanRouter" /\ Unrouted =>
        LET p0 == calc.in.points[1]
            p1 == calc.in.points[2]
            step == IF calc.in.step = 0 THEN 10 ELSE calc.in.step
            midX == calc.out[2][1]
            orth == OrthogonalRouter(calc.in.points, <<>>)
        IN  /\ Len(calc.out) = 4
            /\ calc.out[1] = p0 /\ calc.out[4] = p1
            /\ calc.out[2] = <<midX, p0[2]>> /\ calc.out[3] = <<midX, p1[2]>>
            /\ midX % step = 0
            /\ \A k \in -20..20 :
                   (2 * midX - (p0[1] + p1[1])) * (2 * midX - (p0[1] + p1[1]))
                     <= (2 * k * step - (p0[1] + p1[1])) * (2 * k * step - (p0[1] + p1[1]))
            /\ orth[2][1] % step = 0 => calc.out = orth

C28_ManhattanRoundsNegativeHalf ==
    /\ calc.fn = "ManhattanRouter" /\ Unrouted
    /\ calc.in.step = 10
    /\ calc.in.points = <<<<-30, 0>>, <<0, 100>>>>
    /\ calc.out[2] = <<-10, 0>>

\* a call of computeAnchor on a path of at least two points
AnchoredPath == calc.fn = "computeAnchor" /\ Len(calc.in.points) >= 2
\* the call addressed the path by t or by snap alone: no segment, no offset
Unshifted ==
    calc.in.opts.segmentIndex = <<>> /\ calc.in.opts.along = 0 /\ calc.in.opts.normal = 0
\* the address with the snap in place of t
Snapped(opts, snap) == [opts EXCEPT !.t = <<>>, !.snap = snap]

\* C22: computeAnchor with t = 0 returns the x, y, tangent and normal it
\* returns for snap 'start', and with t = 1 those of snap 'end'; snap
\* 'start' is the first point of the path and snap 'end' the last one, on
\* paths with segments of length 0 too.
C22_EndsOfPath ==
    AnchoredPath =>
        LET in == calc.in
            first == in.points[1]
            final == in.points[Len(in.points)]
        IN  /\ in.opts.t = <<0>> =>
                 calc.out = computeAnchor(in.points, Snapped(in.opts, "start"))
            /\ in.opts.t = <<2>> =>
                 calc.out = computeAnchor(in.points, Snapped(in.opts, "end"))
            /\ Unshifted /\ in.opts.t = <<>> /\ in.opts.snap = "start" =>
                 calc.out.x = 10 * first[1] /\ calc.out.y = 10 * first[2]
            /\ Unshifted /\ in.opts.t = <<>> /\ in.opts.snap = "end" =>
                 calc.out.x = 10 * final[1] /\ calc.out.y = 10 * final[2]

\* snap 'end' on a path that ends with a segment of length 0
C22_EndAfterZeroLengthSegment ==
    /\ AnchoredPath /\ Unshifted
    /\ calc.in.points = <<<<0, 0>>, <<0, 10>>, <<0, 10>>>>
    /\ calc.in.opts.t = <<>> /\ calc.in.opts.snap = "end"
    /\ calc.out.x = 0 /\ calc.out.y = 100 /\ calc.out.tangent = <<0, 10>>

\* C23: the tangent and the normal computeAnchor returns have length 1 and
\* are perpendicular, the normal being (-tangent.y, tangent.x), for every
\* path and address.
C23_UnitFrame ==
    calc.fn = "computeAnchor" =>
        LET tx == calc.out.tangent[1]
            ty == calc.out.tangent[2]
            nx == calc.out.normal[1]
            ny == calc.out.normal[2]
        IN  /\ tx * tx + ty * ty = 10 * 10
            /\ nx * nx + ny * ny = 10 * 10
            /\ tx * nx + ty * ny = 0
            /\ nx = -ty /\ ny = tx

\* an anchor on a segment of length 0 of a path that has other segments
C23_OnZeroLengthSegment ==
    /\ calc.fn = "computeAnchor"
    /\ calc.in.points = <<<<0, 0>>, <<6, 8>>, <<6, 8>>, <<16, 8>>>>
    /\ calc.in.opts.segmentIndex = <<1>>
    /\ calc.out.tangent = <<10, 0>> /\ calc.out.normal = <<0, 10>>

\* C30: with segmentIndex given and t in [0,1], the point computeAnchor
\* returns for a zero offset lies on the segment of that index (clamped to
\* the segments of the path), between its two end points.
C30_PointOnChosenSegment ==
    /\ AnchoredPath
    /\ calc.in.opts.segmentIndex # <<>>
    /\ calc.in.opts.t \in {<<0>>, <<1>>, <<2>>}
    /\ calc.in.opts.along = 0 /\ calc.in.opts.normal = 0
    => LET pts == calc.in.points
           given == calc.in.opts.segmentIndex[1]
           i == IF given < 0 THEN 0 ELSE IF given > Len(pts) - 2 THEN Len(pts) - 2 ELSE given
           a == pts[i + 1]
           b == pts[i + 2]
           Between(v, p, q) == (10 * p <= v /\ v <= 10 * q) \/ (10 * q <= v /\ v <= 10 * p)
       IN  /\ Between(calc.out.x, a[1], b[1])
           /\ Between(calc.out.y, a[2], b[2])
           /\ (calc.out.x - 10 * a[1]) * (b[2] - a[2]) = (calc.out.y - 10 * a[2]) * (b[1] - a[1])

\* the markers and the label of the edge are the anchors of its path
Decorated(e) ==
    /\ e.startMarker = StartAnchor(e.path)
    /\ e.endMarker = EndAnchor(e.path)
    /\ e.label = LabelAnchor(e.path)

C31_PointAtArclength ==
    (AnchoredPath /\ Unshifted) =>
        LET opts == calc.in.opts
            segs == segsOf(calc.in.points)
            total == lenBefore(segs, Len(segs))
            \* twice t
            t2 == IF opts.t # <<>>
                  THEN (IF opts.t[1] < 0 THEN 0 ELSE IF opts.t[1] > 2 THEN 2 ELSE opts.t[1])
                  ELSE IF opts.snap = "start" THEN 0 ELSE IF opts.snap = "end" THEN 2 ELSE 1
        IN  total > 0 =>
              \E i \in 1..Len(segs) :
                 LET before2 == 2 * lenBefore(segs, i - 1)
                 IN  /\ before2 <= t2 * total
                     /\ t2 * total <= before2 + 2 * segs[i].len
                     /\ calc.out.tangent = segs[i].dir
                     /\ 2 * calc.out.x = 20 * segs[i].a[1] + segs[i].dir[1] * (t2 * total - before2)
                     /\ 2 * calc.out.y = 20 * segs[i].a[2] + segs[i].dir[2] * (t2 * total - before2)

\* t above 1 on a path of two segments: the end of the second one
C31_BeyondTheEnd ==
    /\ AnchoredPath /\ Unshifted
    /\ calc.in.points = <<<<0, 0>>, <<10, 0>>, <<10, 10>>>>
    /\ calc.in.opts.t = <<3>>
    /\ calc.out.x = 100 /\ calc.out.y = 100 /\ calc.out.tangent = <<0, 10>>

\* C32: on a path whose points all coincide, and on an input of fewer than
\* two points, computeAnchor returns the first point (the origin when there
\* is no point) with tangent (1,0) and normal (0,1), whatever the address.
C32_DegeneratePath ==
    calc.fn = "computeAnchor" =>
        LET pts == calc.in.points
            coincident == \A i \in 1..Len(pts) : pts[i] = pts[1]
            first == IF pts = <<>> THEN <<0, 0>> ELSE pts[1]
        IN  coincident =>
              /\ calc.out.x = 10 * first[1] /\ calc.out.y = 10 * first[2]
              /\ calc.out.tangent = <<10, 0>> /\ calc.out.normal = <<0, 10>>

\* the point p (in 120ths) is the point of the shape of a node at np that the
\* ray from the centre of the shape in direction dir passes through
LeavesShape(shape, np, dir, p) ==
    IF shape.nodeName = "circle"
    THEN /\ p[1] = 120 * (np[1] + shape.cx) + 12 * shape.r * dir[1]
         /\ p[2] = 120 * (np[2] + shape.cy) + 12 * shape.r * dir[2]
    ELSE LET x == 120 * (np[1] + shape.x)
             y == 120 * (np[2] + shape.y)
             w == 120 * shape.width
             h == 120 * shape.height
             vx == p[1] - (x + w \div 2)
             vy == p[2] - (y + h \div 2)
         IN  \* on the boundary
             /\ \/ p[1] \in {x, x + w} /\ y <= p[2] /\ p[2] <= y + h
                \/ p[2] \in {y, y + h} /\ x <= p[1] /\ p[1] <= x + w
             \* on the ray
             /\ vx * dir[2] = vy * dir[1]
             /\ vx * dir[1] + vy * dir[2] > 0

\* C33: for an edge between two nodes at distinct positions each end of the
\* path is the point where the line towards the other node leaves the
\* node's shape: centre + r * direction for a circle, the boundary point on
\* the ray from the centre for a rect; for a rect and the direction (0,0)
\* getNodeEdgePoint returns the centre of the rect.
C33_EndsOnBoundary ==
    LET in == calc.in
        p2 == <<in.p1[1] + in.by[1], in.p1[2] + in.by[2]>>
        dir == <<in.by[1] \div 2, in.by[2] \div 2>>
    IN  /\ (calc.fn = "pathEnds" /\ in.by # <<0, 0>>) =>
              /\ in.source.nodeName \in {"circle", "rect"}
                    => LeavesShape(in.source, in.p1, dir, calc.out[1])
              /\ in.target.nodeName \in {"circle", "rect"}
                    => LeavesShape(in.target, p2, <<-dir[1], -dir[2]>>, calc.out[2])
        /\ (calc.fn = "getNodeEdgePoint" /\ in.source.nodeName = "rect") =>
              calc.out = <<120 * (in.p1[1] + in.source.x) + 60 * in.source.width,
                           120 * (in.p1[2] + in.source.y) + 60 * in.source.height>>

\* a diagonal edge from a rect to a circle
C33_DiagonalRectToCircle ==
    /\ calc.fn = "pathEnds"
    /\ calc.in.source = RectShape(0, 0, 12, 8) /\ calc.in.target = CircleShape(0, 0, 5)
    /\ calc.in.p1 = <<0, 0>> /\ calc.in.by = <<12, 16>>
    /\ calc.out = <<<<120 * 9, 120 * 8>>, <<120 * 9, 120 * 12>>>>

\* C34: update(null) changes nothing of the marker; update(anchor) places
\* it at (anchor.x, anchor.y) and gives a triangular marker the points
\* (0,0), (-size, 0.6 size), (-size, -0.6 size) rotated by the angle of the
\* tangent, whatever the updates before have left.
C34_UpdateFromLatestAnchor ==
    [][calc'.fn = "update" =>
         LET anchor == calc'.in
             marker == calc'.out
             cos == anchor.tangent[1]
             sin == anchor.tangent[2]
             size == marker.size
         IN  /\ anchor = NullAnchor => marker = calc.out
             /\ (anchor # NullAnchor /\ marker.kind # "none") =>
                    marker.position = <<anchor.x, anchor.y>>
             /\ (anchor # NullAnchor /\ marker.kind = "polygon") =>
                    marker.points =
                      <<<<0, 0>>,
                        <<-(10 * size) * cos - (6 * size) * sin,
                          -(10 * size) * sin + (6 * size) * cos>>,
                        <<-(10 * size) * cos + (6 * size) * sin,
                          -(10 * size) * sin - (6 * size) * cos>>>>]_vars

\* a triangle that had been turned before points down the tangent (0.6, 0.8)
C34_TriangleTurnedAgain ==
    /\ calc.fn = "update"
    /\ calc.out.kind = "polygon" /\ calc.out.size = 10
    /\ calc.in = [x |-> 30, y |-> -40, tangent |-> <<6, 8>>]
    /\ calc.out.position = <<30, -40>>
    /\ calc.out.points = <<<<0, 0>>, <<-1080, -440>>, <<-120, -1160>>>>

\* C35: every permanent edge the plugin has appended to the graph has a
\* source and a target that are two distinct Node or Port objects, and a
\* release pick that completes when no gesture is in progress appends none
\* (a gesture appends at most one edge, also when pointer-up was delivered
\* twice before the first pick resolved).
C35_OneProperEdgePerGesture ==
    [][/\ \A id \in PermanentChildren' :
             /\ edges'[id].source \in Endpoints
             /\ edges'[id].target \in Endpoints
             /\ edges'[id].source # edges'[id].target
       /\ (last'.op = "upResolved" /\ startEndpoint = Null)
             => PermanentChildren' \subseteq PermanentChildren]_vars

\* the pick of the last handled pointer-up is pending and belongs to the
\* gesture in progress, and this step starts another gesture
AnotherGestureStarts ==
    /\ last.op = "pointerup" /\ last.fail = "async"
    /\ startEndpoint # Null /\ pendingUp > 0
    /\ tempEdge' # NoEdge /\ tempEdge' # tempEdge

\* C36: when a pointer-down starts a second gesture while the release pick
\* of the first is pending, the completion of that pick creates its edge,
\* if any, from the start endpoint of the first gesture, leaves the
\* temporary edge of the second gesture in the graph and does not clear the
\* state of the second gesture.
C36_LatePickKeepsSecondGesture ==
    [][AnotherGestureStarts =>
         \A ep \in PickResults :
            LET after == (Release(ep, "none", FALSE))'
                made == DOMAIN after.world.edges \ DOMAIN edges'
            IN  /\ tempEdge' \in after.world.children
                /\ ~after.cleaned
                /\ \A id \in made : after.world.edges[id].source = startEndpoint]_vars

\* C37: after uninstall the completion of a pick that was pending when
\* uninstall was called leaves startEndpoint, tempEdge, virtualTarget and
\* startPos null and the edges of the graph as they are.
C37_LatePickAfterUninstall ==
    [][(graph = NoGraph /\ (pendingDown' < pendingDown \/ pendingUp' < pendingUp))
          => (Idle' /\ children' = children)]_vars

\* C38: after setPosition has moved a node, getPosition returns the position
\* it was moved to, whatever position the node was configured with.
C38_GetPositionAfterSetPosition ==
    [][\A n \in NodeIds :
          pos'[n] # pos[n] => getPosition(pos', n) = pos'[n]]_vars

\* the Node n and its ports, as objects and as the ids that name them
EndsAt(n) ==
    {NodeRef(n), StringRef(n)}
       \cup {PortRef(p) : p \in {q \in PortIds : portOwner[q] = n}}
       \cup {StringRef(p) : p \in {q \in PortIds : portOwner[q] = n}}

\* C39: after removeNode of a node of the graph no edge of the graph has the
\* node or one of its ports as source or target, whether the edge names it
\* by a node id, by a node:port id or by the object itself.
C39_RemoveNodeRemovesItsEdges ==
    [][\A n \in NodeIds :
          (last'.op = "removeNode" /\ last'.ep = NodeRef(n) /\ n \in nodesById)
          => \A id \in children' :
                {edges'[id].source, edges'[id].target} \cap EndsAt(n) = {}]_vars

\* C40: the node registry holds Node objects only and the edge registry
\* exactly the Edge children; getNodes returns no edge, getEdges no node,
\* and getNodeById of the id of an edge does not return the edge.
C40_RegistriesMatchChildren ==
    /\ \A r \in getNodes(World) : r.k = "node"
    /\ edgesById = children
    /\ \A r \in getEdges(World) : r.k = "edge"
    /\ \A id \in children : getNodeByIdOfEdge(World, id) # EdgeRef(id)

====
